---- MODULE Spec2Model ----
(***************************************************************************)
(* Model of the docx-templater engine (src/unnamed/part_000):              *)
(*   normalizeDocxText  - repairs placeholders split across <w:t> runs     *)
(*   generateDocx / generateDocxDetailed - loop, conditional, table and    *)
(*   simple-placeholder passes over the serialized document text, then    *)
(*   the embedding of images into the package (createImageXML,             *)
(*   getImageSize, relationships and content types).                       *)
(*                                                                         *)
(* Text is modelled character by character: a string is a sequence of      *)
(* one-character strings, and every index is the 0-based JavaScript index  *)
(* the code computes with.                                                 *)
(***************************************************************************)
EXTENDS Integers, Sequences, FiniteSets, TLC

VARIABLES
    documentXml,   \* the document part as loaded: a sequence of nodes
    normOut,       \* results of successive normalizeDocxText calls (normalizer runs)
    data,          \* the caller's data tree: key -> value
    detailed,      \* TRUE: generateDocxDetailed, FALSE: generateDocx
    debug,         \* options.debug (generateDocxDetailed only)
    pc,            \* position of the invocation in the pass pipeline
    xmlString,     \* the text being expanded
    passIn,        \* xmlString as it was handed to each pass that has run
    warnings,      \* the console.warn calls made so far, in order
    inp,           \* the parameters the input document was built from
    keys,          \* Object.keys(data): the keys of the data tree in insertion order
    zip,           \* the package (the JSZip object): which parts it holds, its
                   \* relationships, content-type declarations and media files
    outcome,       \* how the invocation ended: nothing yet, a buffer, or an error
    stats,         \* the statistics counters of generateDocxDetailed
    loopAt,        \* the image loop: relIdCounter and the entry of
                   \* Object.entries(data) it is at
    suspended,     \* a second invocation that waits at an await while this one runs
    scan           \* the marker scan of getImageSize: position, positions examined, result

vars == <<documentXml, normOut, data, detailed, debug, pc, xmlString, passIn,
          warnings, inp, keys, zip, outcome, stats, loopAt, suspended, scan>>

---------------------------------------------------------------------------
(* Bounds of the model.                                                    *)

MaxText == 5        \* length of the text stream given to the normalizer
MaxCuts == 2        \* fragment boundaries put into that text stream
MaxItems == 2       \* items in a list of the data tree

---------------------------------------------------------------------------
(* Strings.                                                                *)

Min(a, b) == IF a < b THEN a ELSE b
Max(a, b) == IF a > b THEN a ELSE b

\* the characters matched by \w
WordChars ==
    {"a","b","c","d","e","f","g","h","i","j","k","l","m","n","o","p","q","r",
     "s","t","u","v","w","x","y","z",
     "A","B","C","D","E","F","G","H","I","J","K","L","M","N","O","P","Q","R",
     "S","T","U","V","W","X","Y","Z",
     "0","1","2","3","4","5","6","7","8","9","_"}

IsWord(c) == c \in WordChars

RECURSIVE Concat(_)
\* Array.prototype.join("") / repeated +=
Concat(ss) == IF ss = <<>> THEN <<>> ELSE Head(ss) \o Concat(Tail(ss))

\* String.prototype.substring(a, b): arguments clamped to [0, length], swapped when a > b
Substring(s, a, b) ==
    LET ca == Max(0, Min(a, Len(s)))
        cb == Max(0, Min(b, Len(s)))
    IN  SubSeq(s, Min(ca, cb) + 1, Max(ca, cb))

\* does p occur in s at 0-based index i
OccursAt(s, p, i) ==
    /\ i >= 0
    /\ i + Len(p) <= Len(s)
    /\ \A j \in 1..Len(p) : s[i + j] = p[j]

\* String.prototype.indexOf(p, from): -1 when there is no occurrence at or after from
IndexOf(s, p, from) ==
    LET hits == {i \in Max(0, from)..(Len(s) - Len(p)) : OccursAt(s, p, i)}
    IN  IF hits = {} THEN -1 ELSE CHOOSE i \in hits : \A j \in hits : i <= j

\* String.prototype.lastIndexOf(p, from): -1 when there is no occurrence at or before from
LastIndexOf(s, p, from) ==
    LET hits == {i \in 0..Min(from, Len(s) - Len(p)) : OccursAt(s, p, i)}
    IN  IF hits = {} THEN -1 ELSE CHOOSE i \in hits : \A j \in hits : i >= j

\* String.prototype.includes
Includes(s, p) == IndexOf(s, p, 0) # -1

\* String.prototype.replace(p, r) with a string pattern: the first occurrence only
ReplaceFirst(s, p, r) ==
    LET i == IndexOf(s, p, 0)
    IN  IF i = -1 THEN s
        ELSE Substring(s, 0, i) \o r \o Substring(s, i + Len(p), Len(s))

\* the 0-based index just past the maximal run of \w characters starting at i
WordRunEnd(s, i) ==
    LET stops == {j \in i..(Len(s) - 1) : ~IsWord(s[j + 1])}
    IN  IF stops = {} THEN Max(i, Len(s)) ELSE CHOOSE j \in stops : \A k \in stops : j <= k

---------------------------------------------------------------------------
(* The document part.  A node is a <w:t> element (k = "t", s its text      *)
(* content) or any other markup (k = "m", s its serialized form).          *)

TNode(s) == [k |-> "t", s |-> s]
MNode(s) == [k |-> "m", s |-> s]

\* getElementsByTagName("w:t"): the positions of the text elements, in document order
TextNodes(doc) ==
    LET RECURSIVE Pick(_)
        Pick(i) == IF i > Len(doc) THEN <<>>
                   ELSE IF doc[i].k = "t" THEN <<i>> \o Pick(i + 1)
                   ELSE Pick(i + 1)
    IN  Pick(1)

\* XMLSerializer.serializeToString: an empty element is written self-closed
SerializeNode(n) ==
    IF n.k = "m" THEN n.s
    ELSE IF n.s = <<>> THEN <<"<","w",":","t","/",">">>
    ELSE <<"<","w",":","t",">">> \o n.s \o <<"<","/","w",":","t",">">>

Serialize(doc) == Concat([i \in 1..Len(doc) |-> SerializeNode(doc[i])])

---------------------------------------------------------------------------
(* normalizeDocxText.                                                      *)

\* textElements[].text
ElementTexts(doc) == [j \in 1..Len(TextNodes(doc)) |-> doc[TextNodes(doc)[j]].s]

\* fullText
FullText(texts) == Concat(texts)

\* textElements[j].startIndex = fullText.length - text.length at the time of the push
StartIndex(texts, j) == Len(Concat(SubSeq(texts, 1, j - 1)))

RECURSIVE PlaceholderScan(_, _)
\* placeholderRegex = /{[^}]+}/g, exec loop from 0-based index i
PlaceholderScan(s, i) ==
    LET open == IndexOf(s, <<"{">>, i)
        close == IndexOf(s, <<"}">>, open + 1)
    IN  IF open = -1 \/ close = -1 THEN <<>>
        ELSE IF close = open + 1 THEN PlaceholderScan(s, open + 1)
        ELSE <<[start |-> open, end |-> close + 1]>> \o PlaceholderScan(s, close + 1)

\* replacements
Replacements(fullText) == PlaceholderScan(fullText, 0)

\* overlappingPlaceholders: replacements.filter(elStart < r.end && elEnd > r.start)
Overlaps(elStart, elEnd, r) == elStart < r.end /\ elEnd > r.start

OverlappingPlaceholders(reps, elStart, elEnd) ==
    SelectSeq(reps, LAMBDA r : Overlaps(elStart, elEnd, r))

RECURSIVE BuildContentDup(_, _, _, _, _, _, _)
\* BuildContent without the "starts within this element" test: every
\* overlapping element receives the placeholder
BuildContentDup(fullText, elStart, elEnd, ov, n, elementContent, currentPos) ==
    IF n > Len(ov)
    THEN IF currentPos < elEnd
         THEN elementContent \o Substring(fullText, currentPos, elEnd)
         ELSE elementContent
    ELSE LET r == ov[n]
             beforeStart == Max(currentPos, elStart)
             beforeEnd == Min(r.start, elEnd)
             c1 == IF beforeStart < beforeEnd
                   THEN elementContent \o Substring(fullText, beforeStart, beforeEnd)
                   ELSE elementContent
             c2 == c1 \o Substring(fullText, r.start, r.end)
         IN  BuildContentDup(fullText, elStart, elEnd, ov, n + 1, c2,
                             Max(currentPos, r.end))

RECURSIVE BuildContentNoAdvance(_, _, _, _, _, _, _)
\* BuildContent with currentPos never moved past a placeholder
BuildContentNoAdvance(fullText, elStart, elEnd, ov, n, elementContent, currentPos) ==
    IF n > Len(ov)
    THEN IF currentPos < elEnd
         THEN elementContent \o Substring(fullText, currentPos, elEnd)
         ELSE elementContent
    ELSE LET r == ov[n]
             beforeStart == Max(currentPos, elStart)
             beforeEnd == Min(r.start, elEnd)
             c1 == IF beforeStart < beforeEnd
                   THEN elementContent \o Substring(fullText, beforeStart, beforeEnd)
                   ELSE elementContent
             c2 == IF r.start >= elStart /\ r.start < elEnd
                   THEN c1 \o Substring(fullText, r.start, r.end)
                   ELSE c1
         IN  BuildContentNoAdvance(fullText, elStart, elEnd, ov, n + 1, c2, currentPos)

RECURSIVE BuildContentNoTail(_, _, _, _, _, _, _)
\* BuildContent without the remaining text after the last placeholder
BuildContentNoTail(fullText, elStart, elEnd, ov, n, elementContent, currentPos) ==
    IF n > Len(ov)
    THEN elementContent
    ELSE LET r == ov[n]
             beforeStart == Max(currentPos, elStart)
             beforeEnd == Min(r.start, elEnd)
             c1 == IF beforeStart < beforeEnd
                   THEN elementContent \o Substring(fullText, beforeStart, beforeEnd)
                   ELSE elementContent
             c2 == IF r.start >= elStart /\ r.start < elEnd
                   THEN c1 \o Substring(fullText, r.start, r.end)
                   ELSE c1
         IN  BuildContentNoTail(fullText, elStart, elEnd, ov, n + 1, c2,
                                Max(currentPos, r.end))

RECURSIVE BuildContent(_, _, _, _, _, _, _)
\* the for loop over overlappingPlaceholders and the trailing text
BuildContent(fullText, elStart, elEnd, ov, n, elementContent, currentPos) ==
    IF n > Len(ov)
    THEN IF currentPos < elEnd
         THEN elementContent \o Substring(fullText, currentPos, elEnd)
         ELSE elementContent
    ELSE LET r == ov[n]
             beforeStart == Max(currentPos, elStart)
             beforeEnd == Min(r.start, elEnd)
             c1 == IF beforeStart < beforeEnd
                   THEN elementContent \o Substring(fullText, beforeStart, beforeEnd)
                   ELSE elementContent
             c2 == IF r.start >= elStart /\ r.start < elEnd
                   THEN c1 \o Substring(fullText, r.start, r.end)
                   ELSE c1
         IN  BuildContent(fullText, elStart, elEnd, ov, n + 1, c2, Max(currentPos, r.end))

\* elementReplacements.has(textEl.element)
HasReplacement(reps, elStart, elEnd) ==
    OverlappingPlaceholders(reps, elStart, elEnd) # <<>>

\* the content elementReplacements holds for the element at [elStart, elEnd)
ElementContent(fullText, reps, elStart, elEnd) ==
    BuildContent(fullText, elStart, elEnd,
                 OverlappingPlaceholders(reps, elStart, elEnd), 1, <<>>, elStart)

\* the final forEach: an element overlapping a placeholder but holding no replacement is cleared
IsCleared(reps, elStart, elEnd) ==
    \E n \in 1..Len(reps) :
        Overlaps(elStart, elEnd, reps[n]) /\ ~HasReplacement(reps, elStart, elEnd)

\* the text content of every <w:t> element after normalizeDocxText
NormalizeTexts(texts) ==
    LET fullText == FullText(texts)
        reps == Replacements(fullText)
    IN  [j \in 1..Len(texts) |->
            LET elStart == StartIndex(texts, j)
                elEnd == elStart + Len(texts[j])
            IN  IF HasReplacement(reps, elStart, elEnd)
                THEN ElementContent(fullText, reps, elStart, elEnd)
                ELSE IF IsCleared(reps, elStart, elEnd) THEN <<>>
                ELSE texts[j]]

\* normalizeDocxText on the parsed document
NormalizeDocxText(doc) ==
    LET tn == TextNodes(doc)
        out == NormalizeTexts(ElementTexts(doc))
    IN  [i \in 1..Len(doc) |->
            IF doc[i].k = "t"
            THEN TNode(out[CHOOSE j \in 1..Len(tn) : tn[j] = i])
            ELSE doc[i]]

---------------------------------------------------------------------------
(* Values of the data tree (TemplateData, src/src/types.ts).               *)

Undefined == [t |-> "undefined"]                  \* an absent key
Null == [t |-> "null"]
Bool(b) == [t |-> "boolean", b |-> b]
Num(n) == [t |-> "number", n |-> n]
Str(s) == [t |-> "string", s |-> s]
Arr(items) == [t |-> "array", items |-> items]
Obj(fields) == [t |-> "object", fields |-> fields]  \* a plain object: field -> value

\* an ImageData object: type "image", buffer (a sequence of bytes), extension,
\* and widthInches / heightInches (Undefined when not given)
ImageData(buffer, extension, widthInches, heightInches) ==
    [t |-> "image", buffer |-> buffer, extension |-> extension,
     widthInches |-> widthInches, heightInches |-> heightInches]

\* an image of no recognized format, no size given
Image == ImageData(<<>>, <<"p","n","g">>, Undefined, Undefined)

\* data[key], item[k]: an absent property reads as undefined
Get(o, key) == IF key \in DOMAIN o THEN o[key] ELSE Undefined

\* ToBoolean, as used by !arr and by condition &&
Truthy(v) ==
    CASE v.t = "undefined" -> FALSE
      [] v.t = "null" -> FALSE
      [] v.t = "boolean" -> v.b
      [] v.t = "number" -> v.n # 0
      [] v.t = "string" -> v.s # <<>>
      [] OTHER -> TRUE

\* Array.isArray
IsArray(v) == v.t = "array"

\* value != null
NotNullish(v) == v.t \notin {"undefined", "null"}

Digit(d) == CASE d = 0 -> "0" [] d = 1 -> "1" [] d = 2 -> "2" [] d = 3 -> "3"
              [] d = 4 -> "4" [] d = 5 -> "5" [] d = 6 -> "6" [] d = 7 -> "7"
              [] d = 8 -> "8" [] d = 9 -> "9"

RECURSIVE Digits(_)
Digits(n) == IF n < 10 THEN <<Digit(n)>> ELSE Append(Digits(n \div 10), Digit(n % 10))

\* String(value) of a scalar or of a plain object
StringOf(v) ==
    CASE v.t = "string" -> v.s
      [] v.t = "number" -> IF v.n < 0 THEN <<"-">> \o Digits(-v.n) ELSE Digits(v.n)
      [] v.t = "boolean" -> IF v.b THEN <<"t","r","u","e">> ELSE <<"f","a","l","s","e">>
      [] v.t = "null" -> <<"n","u","l","l">>
      [] v.t = "undefined" -> <<"u","n","d","e","f","i","n","e","d">>
      [] OTHER -> <<"[","o","b","j","e","c","t"," ","O","b","j","e","c","t","]">>

---------------------------------------------------------------------------
(* Numbers.  A number is a fraction n/d in lowest terms with d > 0; d = 0  *)
(* stands for the non-finite values: n = 1 Infinity, n = -1 -Infinity,     *)
(* n = 0 NaN.  The rounding error of double arithmetic is not modelled.    *)

Sgn(n) == IF n > 0 THEN 1 ELSE IF n < 0 THEN -1 ELSE 0
Abs(n) == IF n < 0 THEN -n ELSE n

RECURSIVE GCD(_, _)
GCD(a, b) == IF b = 0 THEN Abs(a) ELSE GCD(b, a % Abs(b))

Rat(n, d) ==
    IF d = 0 THEN [n |-> Sgn(n), d |-> 0]
    ELSE LET g == GCD(n, d)
         IN  [n |-> Sgn(d) * (n \div g), d |-> Abs(d) \div g]

\* a * b
RMul(a, b) ==
    IF a.d = 0 \/ b.d = 0 THEN [n |-> Sgn(a.n) * Sgn(b.n), d |-> 0]
    ELSE LET g1 == GCD(a.n, b.d)
             g2 == GCD(b.n, a.d)
         IN  IF a.n = 0 \/ b.n = 0 THEN [n |-> 0, d |-> 1]
             ELSE [n |-> (a.n \div g1) * (b.n \div g2), d |-> (a.d \div g2) * (b.d \div g1)]

\* a / b
RDiv(a, b) ==
    IF a.d = 0 THEN (IF b.d = 0 THEN [n |-> 0, d |-> 0]
                     ELSE [n |-> a.n * (IF b.n < 0 THEN -1 ELSE 1), d |-> 0])
    ELSE IF b.d = 0 THEN [n |-> 0, d |-> IF b.n = 0 THEN 0 ELSE 1]
    ELSE IF b.n = 0 THEN [n |-> Sgn(a.n), d |-> 0]
    ELSE RMul(a, [n |-> Sgn(b.n) * b.d, d |-> Abs(b.n)])

\* a > b (false when either is NaN)
RGt(a, b) ==
    IF (a.d = 0 /\ a.n = 0) \/ (b.d = 0 /\ b.n = 0) THEN FALSE
    ELSE IF a.d = 0 THEN a.n = 1 /\ ~(b.d = 0 /\ b.n = 1)
    ELSE IF b.d = 0 THEN b.n = -1
    ELSE (a.n \div a.d) > (b.n \div b.d)
         \/ ((a.n \div a.d) = (b.n \div b.d) /\ (a.n % a.d) * b.d > (b.n % b.d) * a.d)

\* MathRound as Math.floor
MathRoundDown(a) ==
    IF a.d = 0 THEN a ELSE [n |-> a.n \div a.d, d |-> 1]

\* Math.round: the nearest integer, a half rounded up; non-finite values unchanged
MathRound(a) ==
    IF a.d = 0 THEN a
    ELSE [n |-> (a.n \div a.d) + (IF 2 * (a.n % a.d) >= a.d THEN 1 ELSE 0), d |-> 1]

\* `${x}` of a rounded number
NumberText(a) ==
    IF a.d = 0
    THEN (CASE a.n = 1 -> <<"I","n","f","i","n","i","t","y">>
            [] a.n = -1 -> <<"-","I","n","f","i","n","i","t","y">>
            [] OTHER -> <<"N","a","N">>)
    ELSE IF a.n < 0 THEN <<"-">> \o Digits(-a.n) ELSE Digits(a.n)

---------------------------------------------------------------------------
(* getImageSize.  A buffer is a sequence of bytes; bytes[i] with i past    *)
(* the end is undefined: it equals no byte value and is 0 under << and |.  *)

\* "let i = 2": the scan before its first iteration
NotScanning == [i |-> 2, visited |-> <<>>, returned |-> FALSE]

\* bytes[i] === v
ByteIs(bytes, i, v) == i >= 0 /\ i < Len(bytes) /\ bytes[i + 1] = v

\* bytes[i] as an operand of << and |
ByteBits(bytes, i) == IF i >= 0 /\ i < Len(bytes) THEN bytes[i + 1] ELSE 0

\* (bytes[i] << 24) | (bytes[i+1] << 16) | (bytes[i+2] << 8) | bytes[i+3], a signed 32-bit value
BigEndian32(bytes, i) ==
    LET top == ByteBits(bytes, i)
    IN  (IF top >= 128 THEN top - 256 ELSE top) * 16777216
        + ByteBits(bytes, i + 1) * 65536 + ByteBits(bytes, i + 2) * 256
        + ByteBits(bytes, i + 3)

\* (bytes[i] << 8) | bytes[i+1]
BigEndian16(bytes, i) == ByteBits(bytes, i) * 256 + ByteBits(bytes, i + 1)

RECURSIVE JpegScan(_, _)
\* the while loop of the JPEG branch from position i: the frame size found, or none
JpegScan(bytes, i) ==
    IF ~(i < Len(bytes) - 8) THEN [found |-> FALSE]
    ELSE IF ByteIs(bytes, i, 255)
    THEN LET marker == bytes[i + 2]
             length == BigEndian16(bytes, i + 2)
         IN  IF marker >= 192 /\ marker <= 195
             THEN [found |-> TRUE, width |-> BigEndian16(bytes, i + 7),
                   height |-> BigEndian16(bytes, i + 5)]
             ELSE JpegScan(bytes, i + length + 2)
    ELSE JpegScan(bytes, i + 1)

\* getImageSize that takes 89 50 alone for the PNG signature
getImageSizeShortPng(bytes) ==
    LET jpeg == IF ByteIs(bytes, 0, 255) /\ ByteIs(bytes, 1, 216)
                THEN JpegScan(bytes, 2) ELSE [found |-> FALSE]
    IN  IF ByteIs(bytes, 0, 137) /\ ByteIs(bytes, 1, 80)
        THEN [width |-> BigEndian32(bytes, 16), height |-> BigEndian32(bytes, 20)]
        ELSE IF jpeg.found THEN [width |-> jpeg.width, height |-> jpeg.height]
        ELSE IF ByteIs(bytes, 0, 71) /\ ByteIs(bytes, 1, 73) /\ ByteIs(bytes, 2, 70)
                /\ ByteIs(bytes, 3, 56)
        THEN [width |-> ByteBits(bytes, 6) + ByteBits(bytes, 7) * 256,
              height |-> ByteBits(bytes, 8) + ByteBits(bytes, 9) * 256]
        ELSE [width |-> 100, height |-> 100]

getImageSize(bytes) ==
    LET jpeg == IF ByteIs(bytes, 0, 255) /\ ByteIs(bytes, 1, 216)
                THEN JpegScan(bytes, 2) ELSE [found |-> FALSE]
    IN  IF ByteIs(bytes, 0, 137) /\ ByteIs(bytes, 1, 80) /\ ByteIs(bytes, 2, 78)
           /\ ByteIs(bytes, 3, 71)
        THEN [width |-> BigEndian32(bytes, 16), height |-> BigEndian32(bytes, 20)]
        ELSE IF jpeg.found THEN [width |-> jpeg.width, height |-> jpeg.height]
        ELSE IF ByteIs(bytes, 0, 71) /\ ByteIs(bytes, 1, 73) /\ ByteIs(bytes, 2, 70)
                /\ ByteIs(bytes, 3, 56)
        THEN [width |-> ByteBits(bytes, 6) + ByteBits(bytes, 7) * 256,
              height |-> ByteBits(bytes, 8) + ByteBits(bytes, 9) * 256]
        ELSE [width |-> 100, height |-> 100]

---------------------------------------------------------------------------
(* createImageXML.                                                         *)

inchesToEMU == 914400

\* a number of the data tree as a fraction
RatOf(v) == Rat(v.n, v.d)

\* ImageExtent whose default scaling caps the width only
ImageExtentWidthCapOnly(dims, imageData) ==
    LET w == imageData.widthInches
        h == imageData.heightInches
        emu == Rat(inchesToEMU, 1)
        cx0 == Rat(dims.width * 9525, 1)
        cy0 == Rat(dims.height * 9525, 1)
        maxWidthTwips == Rat(6 * inchesToEMU, 1)
    IN  IF Truthy(w) \/ Truthy(h)
        THEN IF Truthy(w) /\ Truthy(h)
             THEN [cx |-> RMul(RatOf(w), emu), cy |-> RMul(RatOf(h), emu)]
             ELSE IF Truthy(w)
             THEN LET aspectRatio == RDiv(Rat(dims.height, 1), Rat(dims.width, 1))
                      cx == RMul(RatOf(w), emu)
                  IN  [cx |-> cx, cy |-> RMul(cx, aspectRatio)]
             ELSE LET aspectRatio == RDiv(Rat(dims.width, 1), Rat(dims.height, 1))
                      cy == RMul(RatOf(h), emu)
                  IN  [cx |-> RMul(cy, aspectRatio), cy |-> cy]
        ELSE IF RGt(cx0, maxWidthTwips)
             THEN [cx |-> maxWidthTwips, cy |-> RMul(cy0, RDiv(maxWidthTwips, cx0))]
             ELSE [cx |-> cx0, cy |-> cy0]

\* cx and cy before rounding
ImageExtent(dims, imageData) ==
    LET w == imageData.widthInches
        h == imageData.heightInches
        emu == Rat(inchesToEMU, 1)
        cx0 == Rat(dims.width * 9525, 1)
        cy0 == Rat(dims.height * 9525, 1)
        maxWidthTwips == Rat(6 * inchesToEMU, 1)
        maxHeightTwips == Rat(6 * inchesToEMU, 1)
    IN  IF Truthy(w) \/ Truthy(h)
        THEN IF Truthy(w) /\ Truthy(h)
             THEN [cx |-> RMul(RatOf(w), emu), cy |-> RMul(RatOf(h), emu)]
             ELSE IF Truthy(w)
             THEN LET aspectRatio == RDiv(Rat(dims.height, 1), Rat(dims.width, 1))
                      cx == RMul(RatOf(w), emu)
                  IN  [cx |-> cx, cy |-> RMul(cx, aspectRatio)]
             ELSE LET aspectRatio == RDiv(Rat(dims.width, 1), Rat(dims.height, 1))
                      cy == RMul(RatOf(h), emu)
                  IN  [cx |-> RMul(cy, aspectRatio), cy |-> cy]
        ELSE LET cx1 == IF RGt(cx0, maxWidthTwips) THEN maxWidthTwips ELSE cx0
                 cy1 == IF RGt(cx0, maxWidthTwips)
                        THEN RMul(cy0, RDiv(maxWidthTwips, cx0)) ELSE cy0
             IN  IF RGt(cy1, maxHeightTwips)
                 THEN [cx |-> RMul(cx1, RDiv(maxHeightTwips, cy1)), cy |-> maxHeightTwips]
                 ELSE [cx |-> cx1, cy |-> cy1]

\* the template literal returned by createImageXML, with the texts put into its
\* holes: the elements that carry the size and the relationship id, the
\* constant markup between them left out
DrawingMarkup(rId, cx, cy) ==
    <<"<","w",":","r",">","<","w",":","d","r","a","w","i","n","g",">","<","w","p",":","e","x","t","e","n","t"," ","c","x","=","\"">> \o cx \o <<"\""," ","c","y","=","\"">> \o cy
    \o <<"\"","/",">","<","a",":","b","l","i","p"," ","r",":","e","m","b","e","d","=","\"">> \o rId
    \o <<"\"","/",">","<","a",":","e","x","t"," ","c","x","=","\"">> \o cx \o <<"\""," ","c","y","=","\"">> \o cy \o <<"\"","/",">","<","/","w",":","d","r","a","w","i","n","g",">","<","/","w",":","r",">">>

createImageXML(rId, dims, imageData) ==
    LET e == ImageExtent(dims, imageData)
    IN  DrawingMarkup(rId, NumberText(MathRound(e.cx)), NumberText(MathRound(e.cy)))

---------------------------------------------------------------------------
(* Regular-expression matching.  A match is a record with the 0-based      *)
(* start index, the index just past its end, and its captured groups.      *)

NoMatch == [ok |-> FALSE]

\* String.prototype.replace(regex /g, callback): every match replaced by reps[n]
Splice(s, ms, reps) ==
    Concat([n \in 1..Len(ms) |->
               Substring(s, IF n = 1 THEN 0 ELSE ms[n - 1].end, ms[n].start) \o reps[n]])
    \o Substring(s, IF ms = <<>> THEN 0 ELSE ms[Len(ms)].end, Len(s))

\* the tag  open name }  at index i: its name and the index just past the tag
TagAt(s, open, i) ==
    LET nameStart == i + Len(open)
        nameEnd == WordRunEnd(s, nameStart)
    IN  IF OccursAt(s, open, i) /\ nameEnd > nameStart /\ OccursAt(s, <<"}">>, nameEnd)
        THEN [ok |-> TRUE, key |-> Substring(s, nameStart, nameEnd), end |-> nameEnd + 1]
        ELSE NoMatch

\* {\/\1}
CloseTag(key) == <<"{", "/">> \o key \o <<"}">>

\* /{(\w+)}/ at index i
WordTokenAt(s, i) ==
    LET tag == TagAt(s, <<"{">>, i)
    IN  IF tag.ok THEN [ok |-> TRUE, start |-> i, end |-> tag.end, key |-> tag.key]
        ELSE NoMatch

\* /{table:(\w+)}/ at index i
TableTokenAt(s, i) ==
    LET tag == TagAt(s, <<"{","t","a","b","l","e",":">>, i)
    IN  IF tag.ok THEN [ok |-> TRUE, start |-> i, end |-> tag.end, key |-> tag.key]
        ELSE NoMatch

\* /{#(\w+)}([\s\S]*?){\/\1}/ at index i: the lazy body ends at the nearest close tag
\* LoopMatchAt with a greedy body: the loop ends at the last close tag of its name
LoopMatchAtGreedy(s, i) ==
    LET tag == TagAt(s, <<"{","#">>, i)
        close == LastIndexOf(s, CloseTag(tag.key), Len(s))
    IN  IF tag.ok /\ close >= tag.end
        THEN [ok |-> TRUE, start |-> i, end |-> close + Len(tag.key) + 3,
              key |-> tag.key, inner |-> Substring(s, tag.end, close)]
        ELSE NoMatch

LoopMatchAt(s, i) ==
    LET tag == TagAt(s, <<"{","#">>, i)
        close == IndexOf(s, CloseTag(tag.key), tag.end)
    IN  IF tag.ok /\ close # -1
        THEN [ok |-> TRUE, start |-> i, end |-> close + Len(tag.key) + 3,
              key |-> tag.key, inner |-> Substring(s, tag.end, close)]
        ELSE NoMatch

RECURSIVE CondBodyFrom(_, _, _, _, _)
\* ([\s\S]*?)(?:{:else}([\s\S]*?))?{\/\1} with the if-branch ending at e or later:
\* the if-branch grows until {:else} (with a close tag after it) or the close tag
\* follows it, and the optional group is tried before the close tag
CondBodyFrom(s, i, tag, e, elseTag) ==
    LET b == IndexOf(s, <<"{">>, e)
        closeAfterElse == IF OccursAt(s, elseTag, b)
                          THEN IndexOf(s, CloseTag(tag.key), b + Len(elseTag))
                          ELSE -1
    IN  IF b = -1 THEN NoMatch
        ELSE IF closeAfterElse # -1
        THEN [ok |-> TRUE, start |-> i, end |-> closeAfterElse + Len(tag.key) + 3,
              key |-> tag.key, ifContent |-> Substring(s, tag.end, b),
              elseContent |-> Substring(s, b + Len(elseTag), closeAfterElse)]
        ELSE IF OccursAt(s, CloseTag(tag.key), b)
        THEN [ok |-> TRUE, start |-> i, end |-> b + Len(tag.key) + 3,
              key |-> tag.key, ifContent |-> Substring(s, tag.end, b),
              elseContent |-> <<>>]
        ELSE CondBodyFrom(s, i, tag, b + 1, elseTag)

\* CondMatchAt for an expression without the optional {:else} group
CondMatchAtNoElse(s, i) ==
    LET tag == TagAt(s, <<"{","?">>, i)
        close == IndexOf(s, CloseTag(tag.key), tag.end)
    IN  IF tag.ok /\ close # -1
        THEN [ok |-> TRUE, start |-> i, end |-> close + Len(tag.key) + 3,
              key |-> tag.key, ifContent |-> Substring(s, tag.end, close),
              elseContent |-> <<>>]
        ELSE NoMatch

\* /{\?(\w+)}([\s\S]*?)(?:{:else}([\s\S]*?))?{\/\1}/ at index i
CondMatchAt(s, i) ==
    LET tag == TagAt(s, <<"{","?">>, i)
    IN  IF tag.ok THEN CondBodyFrom(s, i, tag, tag.end, <<"{",":","e","l","s","e","}">>)
        ELSE NoMatch

RECURSIVE WordTokens(_, _)
\* all matches of /{(\w+)}/g from index i on
WordTokens(s, i) ==
    LET j == IndexOf(s, <<"{">>, i)
    IN  IF j = -1 THEN <<>>
        ELSE IF WordTokenAt(s, j).ok THEN <<WordTokenAt(s, j)>> \o WordTokens(s, WordTokenAt(s, j).end)
        ELSE WordTokens(s, j + 1)

RECURSIVE TableTokens(_, _)
\* all matches of /{table:(\w+)}/g from index i on
TableTokens(s, i) ==
    LET j == IndexOf(s, <<"{">>, i)
    IN  IF j = -1 THEN <<>>
        ELSE IF TableTokenAt(s, j).ok THEN <<TableTokenAt(s, j)>> \o TableTokens(s, TableTokenAt(s, j).end)
        ELSE TableTokens(s, j + 1)

RECURSIVE LoopMatches(_, _)
\* all matches of the loop expression from index i on
LoopMatches(s, i) ==
    LET j == IndexOf(s, <<"{">>, i)
    IN  IF j = -1 THEN <<>>
        ELSE IF LoopMatchAt(s, j).ok THEN <<LoopMatchAt(s, j)>> \o LoopMatches(s, LoopMatchAt(s, j).end)
        ELSE LoopMatches(s, j + 1)

RECURSIVE CondMatches(_, _)
\* all matches of the conditional expression from index i on
CondMatches(s, i) ==
    LET j == IndexOf(s, <<"{">>, i)
    IN  IF j = -1 THEN <<>>
        ELSE IF CondMatchAt(s, j).ok THEN <<CondMatchAt(s, j)>> \o CondMatches(s, CondMatchAt(s, j).end)
        ELSE CondMatches(s, j + 1)

---------------------------------------------------------------------------
(* The expansion passes of generateDocx and generateDocxDetailed.  Each    *)
(* pass yields the new text and the warnings it logged.                    *)

Warning(msg, key) == [msg |-> msg, key |-> key]

\* item != null
NonNullItems(arr) == SelectSeq(arr.items, LAMBDA item : NotNullish(item))

\* SubstituteFields with an expression that lacks the g flag: the first {field} only
SubstituteFirstField(text, item) ==
    LET all == WordTokens(text, 0)
        ms == IF all = <<>> THEN <<>> ELSE <<all[1]>>
    IN  Splice(text, ms,
               [n \in 1..Len(ms) |->
                   IF NotNullish(Get(item.fields, ms[n].key))
                   THEN StringOf(Get(item.fields, ms[n].key))
                   ELSE <<>>])

\* SubstituteFields that tests value !== undefined: a null field reads "null"
SubstituteFieldsNullText(text, item) ==
    LET ms == WordTokens(text, 0)
    IN  Splice(text, ms,
               [n \in 1..Len(ms) |->
                   IF Get(item.fields, ms[n].key) = Null THEN <<"n","u","l","l">>
                   ELSE IF NotNullish(Get(item.fields, ms[n].key))
                   THEN StringOf(Get(item.fields, ms[n].key))
                   ELSE <<>>])

\* text.replace(/{(\w+)}/g, (_, k) => item[k] != null ? String(item[k]) : "")
SubstituteFields(text, item) ==
    LET ms == WordTokens(text, 0)
    IN  Splice(text, ms,
               [n \in 1..Len(ms) |->
                   IF NotNullish(Get(item.fields, ms[n].key))
                   THEN StringOf(Get(item.fields, ms[n].key))
                   ELSE <<>>])

\* LoopReplacement with .join() in place of .join(""): items separated by a comma
LoopReplacementJoinComma(d, m) ==
    LET arr == Get(d, m.key)
    IN  IF ~Truthy(arr) \/ ~IsArray(arr) \/ Len(arr.items) = 0 THEN <<>>
        ELSE LET items == NonNullItems(arr)
             IN  Concat([n \in 1..Len(items) |->
                            (IF n = 1 THEN <<>> ELSE <<",">>)
                            \o SubstituteFields(m.inner, items[n])])

\* the loop callback: what one {#key}inner{/key} match is replaced by
LoopReplacement(d, m) ==
    LET arr == Get(d, m.key)
    IN  IF ~Truthy(arr) \/ ~IsArray(arr) \/ Len(arr.items) = 0 THEN <<>>
        ELSE LET items == NonNullItems(arr)
             IN  Concat([n \in 1..Len(items) |-> SubstituteFields(m.inner, items[n])])

\* LoopWarning that warns about a missing array only
LoopWarningNotFoundOnly(d, m) ==
    LET arr == Get(d, m.key)
    IN  IF ~Truthy(arr) THEN <<Warning("array not found", m.key)>>
        ELSE <<>>

\* the console.warn of the loop callback
LoopWarning(d, m) ==
    LET arr == Get(d, m.key)
    IN  IF ~Truthy(arr) THEN <<Warning("array not found", m.key)>>
        ELSE IF ~IsArray(arr) THEN <<Warning("not an array", m.key)>>
        ELSE IF Len(arr.items) = 0 THEN <<Warning("array empty", m.key)>>
        ELSE <<>>

LoopPass(s, d) ==
    LET ms == LoopMatches(s, 0)
    IN  [text |-> Splice(s, ms, [n \in 1..Len(ms) |-> LoopReplacement(d, ms[n])]),
         warns |-> Concat([n \in 1..Len(ms) |-> LoopWarning(d, ms[n])])]

\* ConditionHolds without the comparison against the string "0"
ConditionHoldsNoZeroString(condition) ==
    /\ Truthy(condition)
    /\ condition # Str(<<"f","a","l","s","e">>)
    /\ condition # Str(<<>>)
    /\ ~(IsArray(condition) /\ Len(condition.items) = 0)

\* the condition of the conditional callback
ConditionHolds(condition) ==
    /\ Truthy(condition)
    /\ condition # Str(<<"f","a","l","s","e">>)
    /\ condition # Str(<<"0">>)
    /\ condition # Str(<<>>)
    /\ ~(IsArray(condition) /\ Len(condition.items) = 0)

\* the conditional callback
CondReplacement(d, m) ==
    IF ConditionHolds(Get(d, m.key)) THEN m.ifContent ELSE m.elseContent

\* CondPass without the g flag: the first conditional only
CondPassFirstOnly(s, d) ==
    LET ms == CondMatches(s, 0)
    IN  [text |-> IF ms = <<>> THEN s
                  ELSE Splice(s, <<ms[1]>>, <<CondReplacement(d, ms[1])>>),
         warns |-> <<>>]

CondPass(s, d) ==
    LET ms == CondMatches(s, 0)
    IN  [text |-> Splice(s, ms, [n \in 1..Len(ms) |-> CondReplacement(d, ms[n])]),
         warns |-> <<>>]

\* rowTemplate.replace(/{table:\w+}/, ""): the first marker of the row only
RemoveTableMarker(rowTemplate) ==
    LET ms == TableTokens(rowTemplate, 0)
    IN  IF ms = <<>> THEN rowTemplate
        ELSE Substring(rowTemplate, 0, ms[1].start)
             \o Substring(rowTemplate, ms[1].end, Len(rowTemplate))

TrOpen == <<"<","w",":","t","r">>
TrClose == <<"<","/","w",":","t","r",">">>

\* newRows
NewRows(rowTemplate, arr) ==
    LET items == NonNullItems(arr)
    IN  Concat([n \in 1..Len(items) |->
                   SubstituteFields(RemoveTableMarker(rowTemplate), items[n])])

\* TableIteration that leaves the marker in place when the data is unusable
TableIterationKeepsMarker(xs, d, tableMatch) ==
    LET arr == Get(d, tableMatch.key)
        matchIndex == tableMatch.start
        trStartIndex == LastIndexOf(xs, TrOpen, matchIndex)
        trEndIndex == IndexOf(xs, TrClose, matchIndex) + 7
    IN  IF ~IsArray(arr) \/ Len(arr.items) = 0
        THEN [text |-> xs,
              warns |-> <<Warning("table data not found or empty", tableMatch.key)>>]
        ELSE IF trStartIndex = -1 \/ trEndIndex = 6
        THEN [text |-> xs,
              warns |-> <<Warning("no table row structure", tableMatch.key)>>]
        ELSE [text |-> Substring(xs, 0, trStartIndex)
                       \o NewRows(Substring(xs, trStartIndex, trEndIndex), arr)
                       \o Substring(xs, trEndIndex, Len(xs)),
              warns |-> <<>>]

\* TableIteration that tests the missing row end as trEndIndex = -1
TableIterationEndMinusOne(xs, d, tableMatch) ==
    LET fullMatch == <<"{","t","a","b","l","e",":">> \o tableMatch.key \o <<"}">>
        arr == Get(d, tableMatch.key)
        matchIndex == tableMatch.start
        trStartIndex == LastIndexOf(xs, TrOpen, matchIndex)
        trEndIndex == IndexOf(xs, TrClose, matchIndex) + 7
    IN  IF ~IsArray(arr) \/ Len(arr.items) = 0
        THEN [text |-> ReplaceFirst(xs, fullMatch, <<>>),
              warns |-> <<Warning("table data not found or empty", tableMatch.key)>>]
        ELSE IF trStartIndex = -1 \/ trEndIndex = -1
        THEN [text |-> ReplaceFirst(xs, fullMatch, <<>>),
              warns |-> <<Warning("no table row structure", tableMatch.key)>>]
        ELSE [text |-> Substring(xs, 0, trStartIndex)
                       \o NewRows(Substring(xs, trStartIndex, trEndIndex), arr)
                       \o Substring(xs, trEndIndex, Len(xs)),
              warns |-> <<>>]

\* one iteration of "for (const tableMatch of tableMatches)": tableMatch.index is
\* the index the marker had when tableMatches was collected
TableIteration(xs, d, tableMatch) ==
    LET fullMatch == <<"{","t","a","b","l","e",":">> \o tableMatch.key \o <<"}">>
        arr == Get(d, tableMatch.key)
        matchIndex == tableMatch.start
        trStartIndex == LastIndexOf(xs, TrOpen, matchIndex)
        trEndIndex == IndexOf(xs, TrClose, matchIndex) + 7
    IN  IF ~IsArray(arr) \/ Len(arr.items) = 0
        THEN [text |-> ReplaceFirst(xs, fullMatch, <<>>),
              warns |-> <<Warning("table data not found or empty", tableMatch.key)>>]
        ELSE IF trStartIndex = -1 \/ trEndIndex = 6
        THEN [text |-> ReplaceFirst(xs, fullMatch, <<>>),
              warns |-> <<Warning("no table row structure", tableMatch.key)>>]
        ELSE [text |-> Substring(xs, 0, trStartIndex)
                       \o NewRows(Substring(xs, trStartIndex, trEndIndex), arr)
                       \o Substring(xs, trEndIndex, Len(xs)),
              warns |-> <<>>]

RECURSIVE TableLoop(_, _, _, _, _)
\* the iterations n, n+1, ... of the table loop
TableLoop(xs, warns, d, tableMatches, n) ==
    IF n > Len(tableMatches) THEN [text |-> xs, warns |-> warns]
    ELSE LET r == TableIteration(xs, d, tableMatches[n])
         IN  TableLoop(r.text, warns \o r.warns, d, tableMatches, n + 1)

TablePass(s, d) == TableLoop(s, <<>>, d, TableTokens(s, 0), 1)

ImageMarker(key) == <<"_","_","I","M","A","G","E","_","_">> \o key \o <<"_","_">>

\* SimpleReplacement that returns "" for every falsy value first
SimpleReplacementFalsyEmpty(d, key) ==
    LET value == Get(d, key)
    IN  IF ~Truthy(value) THEN <<>>
        ELSE IF value.t = "string" THEN value.s
        ELSE IF value.t = "number" \/ value.t = "boolean" THEN StringOf(value)
        ELSE IF value.t = "image" THEN ImageMarker(key)
        ELSE <<>>

\* the simple placeholder callback
SimpleReplacement(d, key) ==
    LET value == Get(d, key)
    IN  IF value.t = "string" THEN value.s
        ELSE IF value.t = "number" \/ value.t = "boolean" THEN StringOf(value)
        ELSE IF value.t = "image" THEN ImageMarker(key)
        ELSE <<>>

SimplePass(s, d) ==
    LET ms == WordTokens(s, 0)
    IN  [text |-> Splice(s, ms, [n \in 1..Len(ms) |-> SimpleReplacement(d, ms[n].key)]),
         warns |-> <<>>]

\* generateDocx warns always, generateDocxDetailed only under options.debug
Logged(warns) == IF ~detailed \/ debug THEN warns ELSE <<>>

---------------------------------------------------------------------------
(* The statistics counters of generateDocxDetailed.                        *)

ZeroStats ==
    [placeholdersReplaced |-> 0, loopsProcessed |-> 0, conditionalsProcessed |-> 0,
     tablesGenerated |-> 0, imagesEmbedded |-> 0]

RECURSIVE SumSeq(_)
SumSeq(ns) == IF ns = <<>> THEN 0 ELSE Head(ns) + SumSeq(Tail(ns))

\* the placeholdersReplaced++ of one item substitution: the {field}s of the
\* text whose value in the item is neither undefined nor null
FieldsReplaced(text, item) ==
    LET ms == WordTokens(text, 0)
    IN  Cardinality({n \in 1..Len(ms) : NotNullish(Get(item.fields, ms[n].key))})

\* the placeholdersReplaced++ made inside one loop callback
LoopFieldsReplaced(d, m) ==
    LET arr == Get(d, m.key)
    IN  IF ~Truthy(arr) \/ ~IsArray(arr) \/ Len(arr.items) = 0 THEN 0
        ELSE LET items == NonNullItems(arr)
             IN  SumSeq([n \in 1..Len(items) |-> FieldsReplaced(m.inner, items[n])])

\* the placeholdersReplaced++ made inside one iteration of the table loop
TableFieldsReplaced(xs, d, tableMatch) ==
    LET arr == Get(d, tableMatch.key)
        matchIndex == tableMatch.start
        trStartIndex == LastIndexOf(xs, TrOpen, matchIndex)
        trEndIndex == IndexOf(xs, TrClose, matchIndex) + 7
    IN  IF ~IsArray(arr) \/ Len(arr.items) = 0 THEN 0
        ELSE IF trStartIndex = -1 \/ trEndIndex = 6 THEN 0
        ELSE LET items == NonNullItems(arr)
                 newRow == RemoveTableMarker(Substring(xs, trStartIndex, trEndIndex))
             IN  SumSeq([n \in 1..Len(items) |-> FieldsReplaced(newRow, items[n])])

RECURSIVE TableLoopReplaced(_, _, _, _)
\* placeholdersReplaced over the iterations n, n+1, ... of the table loop
TableLoopReplaced(xs, d, tableMatches, n) ==
    IF n > Len(tableMatches) THEN 0
    ELSE TableFieldsReplaced(xs, d, tableMatches[n])
         + TableLoopReplaced(TableIteration(xs, d, tableMatches[n]).text, d,
                             tableMatches, n + 1)

\* the placeholdersReplaced++ of the simple placeholder callback
SimpleReplaced(s, d) ==
    LET ms == WordTokens(s, 0)
    IN  Cardinality({n \in 1..Len(ms) :
                        Get(d, ms[n].key).t \in {"string", "number", "boolean"}})

\* what one pass adds to the counters, given the text it starts from
PassStats(name, s, d) ==
    CASE name = "loops" ->
            [ZeroStats EXCEPT
                !.loopsProcessed = Len(LoopMatches(s, 0)),
                !.placeholdersReplaced =
                    SumSeq([n \in 1..Len(LoopMatches(s, 0)) |->
                               LoopFieldsReplaced(d, LoopMatches(s, 0)[n])])]
      [] name = "conditionals" ->
            [ZeroStats EXCEPT !.conditionalsProcessed = Len(CondMatches(s, 0))]
      [] name = "tables" ->
            [ZeroStats EXCEPT
                !.tablesGenerated = Len(TableTokens(s, 0)),
                !.placeholdersReplaced = TableLoopReplaced(s, d, TableTokens(s, 0), 1)]
      [] name = "placeholders" ->
            [ZeroStats EXCEPT !.placeholdersReplaced = SimpleReplaced(s, d)]

\* the counters after more was counted; generateDocx keeps none
Counted(more) ==
    IF detailed THEN [c \in DOMAIN stats |-> stats[c] + more[c]] ELSE stats

---------------------------------------------------------------------------
(* One invocation, pass by pass.  pc names the pass that runs next.        *)

\* normalizeDocxText(documentXml), serialized
Normalize ==
    /\ pc = "normalize"
    /\ xmlString' = Serialize(NormalizeDocxText(documentXml))
    /\ pc' = "loops"
    /\ UNCHANGED <<documentXml, normOut, data, detailed, debug, passIn, warnings, inp,
                   keys, zip, outcome, stats, loopAt, suspended, scan>>

RunPass(name, result, next) ==
    /\ pc = name
    /\ passIn' = (name :> xmlString) @@ passIn
    /\ xmlString' = result.text
    /\ warnings' = warnings \o Logged(result.warns)
    /\ stats' = Counted(PassStats(name, xmlString, data))
    /\ pc' = next
    /\ UNCHANGED <<documentXml, normOut, data, detailed, debug, inp, keys, zip, outcome,
                   loopAt, suspended, scan>>

Loops == RunPass("loops", LoopPass(xmlString, data), "conditionals")

Conditionals == RunPass("conditionals", CondPass(xmlString, data), "tables")

Tables == RunPass("tables", TablePass(xmlString, data), "placeholders")

Placeholders == RunPass("placeholders", SimplePass(xmlString, data), "images")

---------------------------------------------------------------------------
(* The package.  zip.parts names the parts the package holds, zip.rels the *)
(* Relationship elements of word/_rels/document.xml.rels, zip.types the    *)
(* Default elements of [Content_Types].xml, zip.media the media files.     *)

DocumentPath == "word/document.xml"
relsPath == "word/_rels/document.xml.rels"
contentTypesPath == "[Content_Types].xml"

\* the error of zip.loadAsync on a buffer that is no package
LoadFailure == [name |-> "Error", at |-> "loadAsync"]

\* the TypeError of doc.file(path)!.async(...) when doc.file(path) is null
NullPart(path) == [name |-> "TypeError", at |-> path]

\* new DocxGenerationError(message, "GENERATION_FAILED", error)
DocxGenerationError(error) ==
    [name |-> "DocxGenerationError", code |-> "GENERATION_FAILED", details |-> error]

\* an exception thrown inside the invocation: generateDocxDetailed catches and
\* wraps it, generateDocx has no handler and rejects with the exception itself
Throw(error) ==
    /\ outcome' = [kind |-> "rejected",
                   error |-> IF detailed THEN DocxGenerationError(error) ELSE error]
    /\ pc' = "done"

\* zip.loadAsync(templateBuffer) and doc.file("word/document.xml")!.async("text")
Load ==
    /\ pc = "load"
    /\ IF ~zip.opens THEN Throw(LoadFailure)
       ELSE IF DocumentPath \notin zip.parts THEN Throw(NullPart(DocumentPath))
       ELSE pc' = "normalize" /\ UNCHANGED outcome
    /\ UNCHANGED <<documentXml, normOut, data, detailed, debug, xmlString, passIn,
                   warnings, inp, keys, zip, stats, loopAt, suspended,
                   scan>>

\* Object.values(data).some(v => ... v.type === "image")
hasImages == \E k \in DOMAIN data : data[k].t = "image"

\* `rId${relIdCounter}`
RelId(relIdCounter) == <<"r","I","d">> \o Digits(relIdCounter)

\* `media/${key}.${imageData.extension}`
MediaTarget(key, imageData) == <<"m","e","d","i","a","/">> \o key \o <<".">> \o imageData.extension

\* `word/media/${key}.${imageData.extension}`
imgFile(key, imageData) == <<"w","o","r","d","/">> \o MediaTarget(key, imageData)

RECURSIVE ImageLoop(_, _, _, _)
\* "for (const [key, value] of Object.entries(data))" from entry n on: st holds the
\* package, the document text and relIdCounter
ImageLoop(st, d, order, n) ==
    IF n > Len(order) THEN st
    ELSE LET key == order[n]
             value == d[key]
             rId == RelId(st.relIdCounter)
         IN  IF value.t # "image" THEN ImageLoop(st, d, order, n + 1)
             ELSE ImageLoop(
                    [media |-> st.media \cup {imgFile(key, value)},
                     rels |-> Append(st.rels, [Id |-> rId, Target |-> MediaTarget(key, value)]),
                     docXml |-> ReplaceFirst(st.docXml, ImageMarker(key),
                                             createImageXML(rId, getImageSize(value.buffer),
                                                            value)),
                     relIdCounter |-> st.relIdCounter + 1],
                    d, order, n + 1)

\* the serialized form of a Default element as the package holds it
DefaultText(e) ==
    <<"<","D","e","f","a","u","l","t"," ","E","x","t","e","n","s","i","o","n","=">> \o <<e.quote>> \o e.Extension \o <<e.quote>>
    \o <<" ","C","o","n","t","e","n","t","T","y","p","e","=">> \o <<e.quote>> \o e.ContentType \o <<e.quote, "/", ">">>

\* contentTypesXml
ContentTypesText(types) == Concat([n \in 1..Len(types) |-> DefaultText(types[n])])

imageExtensions == <<<<"j","p","g">>, <<"j","p","e","g">>, <<"p","n","g">>, <<"g","i","f">>>>

\* `image/${ext === "jpg" ? "jpeg" : ext}`
ImageContentType(ext) == <<"i","m","a","g","e","/">> \o (IF ext = <<"j","p","g">> THEN <<"j","p","e","g">> ELSE ext)

\* the Default elements appended by imageExtensions.forEach: every test is made
\* against the text of the part as it was read
AddedDefaults(types) ==
    LET contentTypesXml == ContentTypesText(types)
        missing == SelectSeq(imageExtensions,
                             LAMBDA ext : ~Includes(contentTypesXml,
                                                    <<"E","x","t","e","n","s","i","o","n","=","\"">> \o ext \o <<"\"">>))
    IN  [n \in 1..Len(missing) |->
            [Extension |-> missing[n], ContentType |-> ImageContentType(missing[n]),
             quote |-> "\""]]

\* the imagesEmbedded++ of the image loop: one per image entry
ImagesCounted(d, order) == Cardinality({n \in 1..Len(order) : d[order[n]].t = "image"})

\* "let relIdCounter = 100" and the first entry of Object.entries(data)
NotInLoop == [relIdCounter |-> 100, entry |-> 1]

\* no second invocation
NoCall == [pc |-> "none"]

\* the "if (hasImages)" block
Images ==
    /\ pc = "images"
    /\ passIn' = ("images" :> xmlString) @@ passIn
    /\ loopAt' = IF hasImages /\ relsPath \in zip.parts
                 THEN [relIdCounter |-> 100 + ImagesCounted(data, keys),
                       entry |-> Len(keys) + 1]
                 ELSE loopAt
    /\ stats' = IF hasImages /\ relsPath \in zip.parts
                THEN Counted([ZeroStats EXCEPT !.imagesEmbedded = ImagesCounted(data, keys)])
                ELSE stats
    /\ IF ~hasImages
       THEN pc' = "generate" /\ UNCHANGED <<xmlString, zip, outcome>>
       ELSE IF relsPath \notin zip.parts
       THEN Throw(NullPart(relsPath)) /\ UNCHANGED <<xmlString, zip>>
       ELSE LET st == ImageLoop([media |-> zip.media, rels |-> zip.rels,
                                 docXml |-> xmlString, relIdCounter |-> 100],
                                data, keys, 1)
            IN  /\ xmlString' = st.docXml
                /\ IF contentTypesPath \notin zip.parts
                   THEN /\ Throw(NullPart(contentTypesPath))
                        /\ zip' = [zip EXCEPT !.media = st.media, !.rels = st.rels]
                   ELSE /\ zip' = [zip EXCEPT !.media = st.media, !.rels = st.rels,
                                              !.types = zip.types \o AddedDefaults(zip.types)]
                        /\ pc' = "generate"
                        /\ UNCHANGED outcome
    /\ UNCHANGED <<documentXml, normOut, data, detailed, debug, warnings, inp, keys,
                   suspended, scan>>

\* doc.generateAsync(...) and the return
Generate ==
    /\ pc = "generate"
    /\ outcome' = [kind |-> "buffer"]
    /\ pc' = "done"
    /\ UNCHANGED <<documentXml, normOut, data, detailed, debug, xmlString, passIn,
                   warnings, inp, keys, zip, stats, loopAt, suspended,
                   scan>>

Next ==
    Load \/ Normalize \/ Loops \/ Conditionals \/ Tables \/ Placeholders \/ Images
    \/ Generate

\* the text a pass was handed, and the text it produced
Ran(name) == name \in DOMAIN passIn

After(name) ==
    CASE name = "loops" -> IF Ran("conditionals") THEN passIn["conditionals"] ELSE xmlString
      [] name = "conditionals" -> IF Ran("tables") THEN passIn["tables"] ELSE xmlString
      [] name = "tables" -> IF Ran("placeholders") THEN passIn["placeholders"] ELSE xmlString
      [] name = "placeholders" -> IF Ran("images") THEN passIn["images"] ELSE xmlString
      [] name = "images" -> xmlString

---------------------------------------------------------------------------
(* Templates.  A template is written as a sequence of parts; Render gives  *)
(* its text, and ExpectedAt gives the text the documented semantics of the *)
(* constructs prescribes for it after a given pass, computed on the parts  *)
(* (never by matching the rendered text).                                  *)

Lit(s) == [k |-> "lit", s |-> s]
Field(name) == [k |-> "field", key |-> name]
Loop(key, body) == [k |-> "loop", key |-> key, body |-> body]
If(key, yes) == [k |-> "cond", key |-> key, yes |-> yes, hasElse |-> FALSE, no |-> <<>>]
IfElse(key, yes, no) == [k |-> "cond", key |-> key, yes |-> yes, hasElse |-> TRUE, no |-> no]
TableMarker(key) == [k |-> "table", key |-> key]

Tag(open, key) == open \o key \o <<"}">>
ElseTag == <<"{",":","e","l","s","e","}">>

RECURSIVE Render(_)
Render(parts) ==
    IF parts = <<>> THEN <<>>
    ELSE LET p == Head(parts)
             text == CASE p.k = "lit" -> p.s
                       [] p.k = "field" -> Tag(<<"{">>, p.key)
                       [] p.k = "table" -> Tag(<<"{","t","a","b","l","e",":">>, p.key)
                       [] p.k = "loop" ->
                            Tag(<<"{","#">>, p.key) \o Render(p.body) \o Tag(<<"{","/">>, p.key)
                       [] p.k = "cond" ->
                            Tag(<<"{","?">>, p.key) \o Render(p.yes)
                            \o (IF p.hasElse THEN ElseTag \o Render(p.no) ELSE <<>>)
                            \o Tag(<<"{","/">>, p.key)
         IN  text \o Render(Tail(parts))

\* a {field} filled from an item: the field's string, nothing when missing or null
ItemFieldText(item, name) ==
    IF name \in DOMAIN item.fields /\ item.fields[name].t # "null"
    THEN StringOf(item.fields[name])
    ELSE <<>>

RECURSIVE ItemText(_, _)
\* one instance of a loop body or of a table row for an item
ItemText(parts, item) ==
    IF parts = <<>> THEN <<>>
    ELSE LET p == Head(parts)
         IN  (CASE p.k = "lit" -> p.s
                [] p.k = "field" -> ItemFieldText(item, p.key)
                [] p.k = "table" -> <<>>)
             \o ItemText(Tail(parts), item)

\* a {name} filled from the data tree
OuterFieldText(d, name) ==
    IF name \notin DOMAIN d THEN <<>>
    ELSE CASE d[name].t = "string" -> d[name].s
           [] d[name].t \in {"number", "boolean"} -> StringOf(d[name])
           [] d[name].t = "image" -> ImageMarker(name)
           [] OTHER -> <<>>

\* the documented truthiness table of conditionals
DocumentedTruthy(d, name) ==
    /\ name \in DOMAIN d
    /\ CASE d[name].t = "boolean" -> d[name].b = TRUE
         [] d[name].t = "string" ->
                d[name].s \notin {<<>>, <<"0">>, <<"f","a","l","s","e">>}
         [] d[name].t = "number" -> d[name].n # 0
         [] d[name].t = "array" -> Len(d[name].items) > 0
         [] d[name].t \in {"object", "image"} -> TRUE
         [] OTHER -> FALSE

\* the key holds a non-empty list
UsableList(d, name) ==
    name \in DOMAIN d /\ d[name].t = "array" /\ Len(d[name].items) > 0

\* the passes that have run once the pass named stage has run
PassesUpTo(stage) ==
    CASE stage = "loops" -> {"loops"}
      [] stage = "conditionals" -> {"loops", "conditionals"}
      [] stage = "tables" -> {"loops", "conditionals", "tables"}
      [] stage = "placeholders" -> {"loops", "conditionals", "tables", "placeholders"}

RECURSIVE ExpectedAt(_, _, _)
\* the text of parts once the passes up to stage have run
ExpectedAt(stage, parts, d) ==
    IF parts = <<>> THEN <<>>
    ELSE LET p == Head(parts)
             text ==
               CASE p.k = "lit" -> p.s
                 [] p.k = "field" ->
                      IF "placeholders" \in PassesUpTo(stage) THEN OuterFieldText(d, p.key)
                      ELSE Tag(<<"{">>, p.key)
                 [] p.k = "loop" ->
                      IF UsableList(d, p.key)
                      THEN LET items == SelectSeq(d[p.key].items,
                                                  LAMBDA it : it.t = "object")
                           IN  Concat([n \in 1..Len(items) |-> ItemText(p.body, items[n])])
                      ELSE <<>>
                 [] p.k = "cond" ->
                      IF "conditionals" \in PassesUpTo(stage)
                      THEN IF DocumentedTruthy(d, p.key) THEN ExpectedAt(stage, p.yes, d)
                           ELSE ExpectedAt(stage, p.no, d)
                      ELSE Tag(<<"{","?">>, p.key) \o ExpectedAt(stage, p.yes, d)
                           \o (IF p.hasElse THEN ElseTag \o ExpectedAt(stage, p.no, d)
                               ELSE <<>>)
                           \o Tag(<<"{","/">>, p.key)
         IN  text \o ExpectedAt(stage, Tail(parts), d)

\* a paragraph holding one run of text
Paragraph(text) ==
    <<MNode(<<"<","w",":","p",">">>), TNode(text), MNode(<<"<","/","w",":","p",">">>)>>

\* the invocation kinds: generateDocx, generateDocxDetailed without and with debug
Invocations ==
    {[detailed |-> FALSE, debug |-> FALSE],
     [detailed |-> TRUE, debug |-> FALSE],
     [detailed |-> TRUE, debug |-> TRUE]}

RECURSIVE KeysOf(_)
\* the keys of a data tree, in some insertion order
KeysOf(d) ==
    IF DOMAIN d = {} THEN <<>>
    ELSE LET k == CHOOSE x \in DOMAIN d : TRUE
         IN  <<k>> \o KeysOf([x \in DOMAIN d \ {k} |-> d[x]])

\* a package as a word processor writes it: every part present, some
\* relationships and declarations of its own, no media
PlainPackage ==
    [opens |-> TRUE,
     parts |-> {DocumentPath, relsPath, contentTypesPath},
     rels |-> <<[Id |-> RelId(1), Target |-> <<"s","t","y","l","e","s",".","x","m","l">>]>>,
     types |-> <<[Extension |-> <<"r","e","l","s">>, ContentType |-> <<"a","p","p","l","i","c","a","t","i","o","n","/","v","n","d",".","o","p","e","n","x","m","l","f","o","r","m","a","t","s","-","p","a","c","k","a","g","e",".","r","e","l","a","t","i","o","n","s","h","i","p","s","+","x","m","l">>, quote |-> "\""],
                 [Extension |-> <<"x","m","l">>, ContentType |-> <<"a","p","p","l","i","c","a","t","i","o","n","/","x","m","l">>, quote |-> "\""]>>,
     media |-> {}]

\* an invocation on package package whose document part is doc, with data tree d
\* whose keys were inserted in the given order, built from parameters i
StartWith(doc, d, i, order, package) ==
    /\ documentXml = doc
    /\ data = d
    /\ inp = i
    /\ keys = order
    /\ zip = package
    /\ outcome = [kind |-> "pending"]
    /\ scan = NotScanning
    /\ suspended = NoCall
    /\ loopAt = NotInLoop
    /\ stats = ZeroStats
    /\ \E inv \in Invocations : detailed = inv.detailed /\ debug = inv.debug
    /\ normOut = <<>>
    /\ pc = "load"
    /\ xmlString = <<>>
    /\ passIn = <<>>
    /\ warnings = <<>>

\* an invocation on a plain package
Start(doc, d, i) == StartWith(doc, d, i, KeysOf(d), PlainPackage)

---------------------------------------------------------------------------
(* Loop runs: one {#refs}...{/refs} loop between two literal texts.        *)

K_refs == <<"r","e","f","s">>
K_valeur == <<"v","a","l","e","u","r">>
K_entite == <<"e","n","t","i","t","e">>

\* items holding both fields of the loop body
LoopItems ==
    {Obj((K_valeur :> Str(<<"1","2","3">>)) @@ (K_entite :> Str(<<"T","/","A">>))),
     Obj((K_valeur :> Num(435)) @@ (K_entite :> Str(<<"T"," ","b">>))),
     Obj((K_valeur :> Bool(TRUE)) @@ (K_entite :> Num(0))),
     Obj((K_valeur :> Str(<<>>)) @@ (K_entite :> Bool(FALSE)))}

LoopBodies ==
    {<<Field(K_valeur)>>,
     <<Field(K_valeur), Field(K_entite)>>,
     <<Field(K_entite), Lit(<<" ","(">>), Field(K_valeur), Lit(<<")",";"," ">>)>>,
     <<Lit(<<"-"," ">>), Field(K_valeur), Lit(<<"\n">>)>>,
     <<Field(K_valeur), Lit(<<",">>), Field(K_valeur)>>}

LoopAround == {<<>>, <<"R","e","f",":"," ">>, <<".">>}

NonEmptyLists(S) == UNION {[1..n -> S] : n \in 1..MaxItems}

\* the outer data tree also defines the body's field names
LoopData(items) ==
    (K_refs :> Arr(items)) @@ (K_valeur :> Str(<<"O","U","T">>)) @@ (K_entite :> Num(9))

LoopTemplate(i) == <<Lit(i.pre), Loop(K_refs, i.body), Lit(i.post)>>

InitLoop ==
    \E pre \in LoopAround, post \in LoopAround, body \in LoopBodies,
       items \in NonEmptyLists(LoopItems) :
        LET i == [family |-> "loop", pre |-> pre, body |-> body, post |-> post]
        IN  Start(Paragraph(Render(LoopTemplate(i))), LoopData(items), i)

SpecLoop == InitLoop /\ [][Next]_vars

\* the markup of a paragraph around the given run text
InParagraph(text) ==
    <<"<","w",":","p",">","<","w",":","t",">">> \o text
    \o <<"<","/","w",":","t",">","<","/","w",":","p",">">>

\* C1: for a key holding a non-empty list, the loop construct expands to the
\* concatenation, in list order and without separator, of one instance of the
\* body per item with that item's own fields filled in; the open and close
\* tags are gone, and the text around the loop is kept.
C1_LoopExpansion ==
    /\ Ran("loops") =>
          After("loops") = InParagraph(inp.pre
                              \o Concat([n \in 1..Len(data[K_refs].items) |->
                                            ItemText(inp.body, data[K_refs].items[n])])
                              \o inp.post)
    /\ pc = "images" =>
          /\ xmlString = After("loops")
          /\ ~Includes(xmlString, Tag(<<"{","#">>, K_refs))
          /\ ~Includes(xmlString, Tag(<<"{","/">>, K_refs))

\* a loop over two different items with a two-field body has been expanded
C1_Witness ==
    /\ inp.family = "loop"
    /\ pc = "images"
    /\ Len(data[K_refs].items) = 2
    /\ data[K_refs].items[1] # data[K_refs].items[2]
    /\ Len(inp.body) = 4
    /\ inp.pre # <<>>
    /\ xmlString # passIn["loops"]

---------------------------------------------------------------------------
(* Conditional runs: one {?flag}...{/flag} conditional, with or without    *)
(* an else-branch, between two literal texts.                              *)

K_flag == <<"f","l","a","g">>
K_name == <<"n","a","m","e">>

T_false == <<"f","a","l","s","e">>

\* the values of the conditional's key; Undefined stands for an absent key
CondValues ==
    {Undefined, Null, Bool(TRUE), Bool(FALSE), Num(0), Num(1), Num(-2),
     Str(<<>>), Str(<<"0">>), Str(T_false), Str(<<"n","o">>), Str(<<"0","0">>),
     Arr(<<>>), Arr(<<Obj(K_name :> Str(<<"A">>))>>), Obj(<<>>), Image}

IfBranches == {<<Lit(<<"Y","E","S">>)>>, <<Lit(<<"H","i"," ">>), Field(K_name)>>}

ElseBranches == {<<Lit(<<"N","O">>)>>, <<Field(K_name), Lit(<<"?">>)>>, <<>>}

CondTemplates ==
    {<<If(K_flag, yes)>> : yes \in IfBranches}
    \cup {<<IfElse(K_flag, yes, no)>> : yes \in IfBranches, no \in ElseBranches}

CondAround == {<<>>, <<"a"," ">>}

CondData(v) ==
    IF v = Undefined THEN (K_name :> Str(<<"A","m","y">>))
    ELSE (K_flag :> v) @@ (K_name :> Str(<<"A","m","y">>))

InitCond ==
    \E pre \in CondAround, post \in CondAround, t \in CondTemplates, v \in CondValues :
        LET i == [family |-> "cond", pre |-> pre, cond |-> t[1], post |-> post, value |-> v]
        IN  Start(Paragraph(pre \o Render(t) \o post), CondData(v), i)

SpecCond == InitCond /\ [][Next]_vars

\* the branch the truthiness table of the documentation selects for value v
TableSelectsIf(v) ==
    \/ v = Bool(TRUE)
    \/ v.t = "string" /\ v.s # <<>> /\ v.s # T_false /\ v.s # <<"0">>
    \/ v.t = "number" /\ v.n # 0
    \/ v.t = "array" /\ v.items # <<>>
    \/ v.t \in {"object", "image"}

TableSelectsElse(v) ==
    v \in {Bool(FALSE), Str(T_false), Str(<<"0">>), Str(<<>>), Null, Undefined,
           Arr(<<>>), Num(0)}

C10_BranchSelection ==
    inp.family = "cond" =>
        LET chosen == IF TableSelectsIf(inp.value) THEN inp.cond.yes ELSE inp.cond.no
        IN  /\ Ran("conditionals") =>
                  After("conditionals") = InParagraph(inp.pre \o Render(chosen) \o inp.post)
            /\ pc = "images" =>
                  xmlString = InParagraph(inp.pre
                                 \o Concat([n \in 1..Len(chosen) |->
                                               IF chosen[n].k = "field"
                                               THEN OuterFieldText(data, chosen[n].key)
                                               ELSE chosen[n].s])
                                 \o inp.post)

\* an else-branch holding a placeholder was selected verbatim and filled afterwards
C10_Witness ==
    /\ inp.family = "cond"
    /\ pc = "images"
    /\ inp.value = Bool(FALSE)
    /\ inp.cond.hasElse
    /\ inp.cond.no = <<Field(K_name), Lit(<<"?">>)>>
    /\ passIn["tables"] = InParagraph(inp.pre \o <<"{","n","a","m","e","}","?">> \o inp.post)
    /\ xmlString = InParagraph(inp.pre \o <<"A","m","y","?">> \o inp.post)

---------------------------------------------------------------------------
(* Placeholder runs: two {name} placeholders among literal texts, some of  *)
(* which hold braces that form no {name} token.                            *)

K_date == <<"d","a","t","e">>

\* the values of the placeholder's key; Undefined stands for an absent key
SimpleValues ==
    {Undefined, Null, Bool(TRUE), Bool(FALSE), Num(0), Num(42), Num(-7),
     Str(<<>>), Str(<<"A","m","y">>), Str(<<"a"," ","{","b","}">>),
     Arr(<<>>), Arr(<<Obj(K_name :> Str(<<"A">>))>>), Obj(<<>>), Image}

SimpleLead == {<<>>, <<"D","e","a","r"," ">>, <<"{">>}
SimpleMiddle == {<<>>, <<","," ">>, <<"{"," ","}">>, <<"{","a"," ","b","}">>, <<"}","{","/","x","}">>}
SimpleTail == {<<>>, <<"{","}">>}

SimpleData(v) ==
    IF v = Undefined THEN (K_date :> Str(<<"2","0","2","4">>))
    ELSE (K_name :> v) @@ (K_date :> Str(<<"2","0","2","4">>))

InitSimple ==
    \E a \in SimpleLead, b \in SimpleMiddle, c \in SimpleTail,
       second \in {K_name, K_date}, v \in SimpleValues :
        LET i == [family |-> "simple", a |-> a, b |-> b, c |-> c,
                  second |-> second, value |-> v]
        IN  Start(Paragraph(Render(<<Lit(a), Field(K_name), Lit(b), Field(second), Lit(c)>>)),
                  SimpleData(v), i)

SpecSimple == InitSimple /\ [][Next]_vars

\* what the documentation prescribes for {name} when name holds v
PrescribedText(key, v) ==
    CASE v.t = "string" -> v.s
      [] v.t = "number" -> IF v.n < 0 THEN <<"-">> \o Digits(-v.n) ELSE Digits(v.n)
      [] v = Bool(TRUE) -> <<"t","r","u","e">>
      [] v = Bool(FALSE) -> T_false
      [] v.t = "image" -> <<"_","_","I","M","A","G","E","_","_">> \o key \o <<"_","_">>
      [] OTHER -> <<>>

\* C6: the placeholder pass replaces every {name} by the string itself, by the
\* canonical string of a number or boolean, by the internal marker of an image
\* descriptor, and by nothing for null, an absent key, a list or a plain
\* object; all other text is left as it was.
C6_SimplePlaceholders ==
    (inp.family = "simple" /\ Ran("placeholders")) =>
        /\ passIn["placeholders"] =
              InParagraph(inp.a \o Tag(<<"{">>, K_name) \o inp.b
                          \o Tag(<<"{">>, inp.second) \o inp.c)
        /\ After("placeholders") =
              InParagraph(inp.a \o PrescribedText(K_name, inp.value) \o inp.b
                          \o PrescribedText(inp.second, Get(data, inp.second)) \o inp.c)

\* the number 0 has been written as "0" next to literal braces
C6_Witness ==
    /\ inp.family = "simple"
    /\ pc = "images"
    /\ inp.value = Num(0)
    /\ inp.second = K_date
    /\ inp.b = <<"{","a"," ","b","}">>
    /\ xmlString = InParagraph(inp.a \o <<"0","{","a"," ","b","}","2","0","2","4">> \o inp.c)

---------------------------------------------------------------------------
(* Composition runs: placeholders of the outer scope around a loop whose   *)
(* body holds placeholders of the item scope.                              *)

K_tasks == <<"t","a","s","k","s">>
K_title == <<"t","i","t","l","e">>
K_done == <<"d","o","n","e">>

T_Hello == <<"H","e","l","l","o"," ">>
T_youhave == <<","," ","y","o","u"," ","h","a","v","e"," ">>
T_done == <<"d","o","n","e",".">>

Task(title, done) == Obj((K_title :> title) @@ (K_done :> done))

TaskA == Task(Str(<<"A">>), Str(<<"y","e","s">>))
TaskB == Task(Str(<<"B">>), Str(<<"n","o">>))
TaskC == Task(Num(3), Bool(TRUE))

\* Hello {name}, you have {#tasks}{title} ({done}); {/tasks}done.
HelloTemplate ==
    <<Lit(T_Hello), Field(K_name), Lit(T_youhave),
      Loop(K_tasks, <<Field(K_title), Lit(<<" ","(">>), Field(K_done), Lit(<<")",";"," ">>)>>),
      Lit(T_done)>>

ComposeTemplates ==
    {HelloTemplate,
     <<Loop(K_tasks, <<Lit(<<"[">>), Field(K_title), Lit(<<"]">>)>>), Lit(<<" ">>),
       Field(K_title), Lit(<<"/">>), Field(K_name)>>,
     <<Field(K_done), Lit(<<":">>), Loop(K_tasks, <<Field(K_done), Field(K_title)>>),
       Field(K_name)>>}

ComposeNames == {Str(<<"A","m","y">>), Str(<<"B","o">>), Num(7), Bool(FALSE)}

\* the outer data tree defines title and done as well
ComposeData(name, tasks) ==
    (K_name :> name) @@ (K_tasks :> Arr(tasks)) @@ (K_title :> Str(<<"T","o","p">>))
    @@ (K_done :> Num(1))

InitCompose ==
    \E t \in ComposeTemplates, name \in ComposeNames,
       tasks \in NonEmptyLists({TaskA, TaskB, TaskC}) :
        Start(Paragraph(Render(t)), ComposeData(name, tasks),
              [family |-> "compose", parts |-> t])

SpecCompose == InitCompose /\ [][Next]_vars

\* C9: with placeholders outside a loop and a loop body, the placeholders of
\* the body take the fields of the current item, those outside take the
\* values of the outer data tree, and the literal text stays in place; the
\* Hello template with name Amy and tasks A/yes, B/no gives
\* "Hello Amy, you have A (yes); B (no); done.".
C9_LoopAndOuterScope ==
    (inp.family = "compose" /\ pc = "images") =>
        /\ xmlString = InParagraph(ExpectedAt("placeholders", inp.parts, data))
        /\ ( /\ inp.parts = HelloTemplate
             /\ data[K_name] = Str(<<"A","m","y">>)
             /\ data[K_tasks] = Arr(<<TaskA, TaskB>>) ) =>
               xmlString = InParagraph(
                   <<"H","e","l","l","o"," ","A","m","y",","," ","y","o","u"," ",
                     "h","a","v","e"," ","A"," ","(","y","e","s",")",";"," ",
                     "B"," ","(","n","o",")",";"," ","d","o","n","e",".">>)

\* the Hello template has been expanded for Amy with the tasks A and B
C9_Witness ==
    /\ inp.family = "compose"
    /\ pc = "images"
    /\ inp.parts = HelloTemplate
    /\ data[K_name] = Str(<<"A","m","y">>)
    /\ data[K_tasks] = Arr(<<TaskA, TaskB>>)
    /\ passIn["loops"] # passIn["conditionals"]
    /\ passIn["placeholders"] # xmlString

---------------------------------------------------------------------------
(* Table runs: a table whose data row holds a {table:items} marker in its  *)
(* first cell and {field} placeholders in its cells, with or without row   *)
(* properties (<w:trPr/>), a header row above and a footer row below.      *)

K_items == <<"i","t","e","m","s">>
K_price == <<"p","r","i","c","e">>

X_tbl == <<"<","w",":","t","b","l",">">>
X_tblEnd == <<"<","/","w",":","t","b","l",">">>
X_tr == <<"<","w",":","t","r",">">>
X_trPr == <<"<","w",":","t","r","P","r","/",">">>
X_trEnd == <<"<","/","w",":","t","r",">">>
X_tc == <<"<","w",":","t","c",">">>
X_tcEnd == <<"<","/","w",":","t","c",">">>
X_t == <<"<","w",":","t",">">>
X_tEnd == <<"<","/","w",":","t",">">>

\* a table row as document nodes: each cell holds one run of text
RowNodes(cells, trPr) ==
    <<MNode(X_tr)>> \o (IF trPr THEN <<MNode(X_trPr)>> ELSE <<>>)
    \o Concat([c \in 1..Len(cells) |->
                  <<MNode(X_tc), TNode(Render(cells[c])), MNode(X_tcEnd)>>])
    \o <<MNode(X_trEnd)>>

\* the text of a row whose cells hold the given texts
RowText(cellTexts, trPr) ==
    X_tr \o (IF trPr THEN X_trPr ELSE <<>>)
    \o Concat([c \in 1..Len(cellTexts) |-> X_tc \o X_t \o cellTexts[c] \o X_tEnd \o X_tcEnd])
    \o X_trEnd

\* the row generated for an item: marker gone, fields from the item
RowFor(cells, trPr, item) ==
    RowText([c \in 1..Len(cells) |-> ItemText(cells[c], item)], trPr)

\* the row template with its marker taken out and nothing else changed
RowWithoutMarker(cells, trPr) ==
    RowText([c \in 1..Len(cells) |->
                Render(SelectSeq(cells[c], LAMBDA p : p.k # "table"))], trPr)

Product(name, price) == Obj((K_name :> name) @@ (K_price :> price))

Products ==
    {Product(Str(<<"P","e","n">>), Num(2)),
     Product(Str(<<"I","n","k">>), Str(<<"1","0",".","5">>)),
     Product(Num(7), Bool(TRUE))}

\* the cells of the data row
DataRows ==
    {<<<<TableMarker(K_items), Field(K_name)>>, <<Field(K_price)>>>>,
     <<<<TableMarker(K_items)>>, <<Field(K_name), Lit(<<":">>), Field(K_price)>>>>,
     <<<<Lit(<<"#">>), TableMarker(K_items)>>, <<Field(K_name)>>>>}

HeaderRow == <<<<Lit(<<"N","a","m","e">>)>>>>
FooterRow == <<<<Lit(<<"e","n","d">>)>>>>

\* table data that cannot be expanded; Undefined stands for an absent key
UnusableTableData ==
    {Undefined, Null, Arr(<<>>), Str(<<"x">>), Num(3), Bool(TRUE), Obj(<<>>)}

TableData(v) ==
    IF v = Undefined THEN (K_name :> Str(<<"O","U","T">>))
    ELSE (K_items :> v) @@ (K_name :> Str(<<"O","U","T">>))

TableDoc(i) ==
    <<MNode(X_tbl)>>
    \o (IF i.header THEN RowNodes(HeaderRow, FALSE) ELSE <<>>)
    \o RowNodes(i.row, i.trPr)
    \o (IF i.footer THEN RowNodes(FooterRow, FALSE) ELSE <<>>)
    \o <<MNode(X_tblEnd)>>

InitTable ==
    \E row \in DataRows, trPr \in BOOLEAN, header \in BOOLEAN, footer \in BOOLEAN,
       v \in UnusableTableData \cup {Arr(l) : l \in NonEmptyLists(Products)} :
        LET i == [family |-> "table", row |-> row, trPr |-> trPr, header |-> header,
                  footer |-> footer, value |-> v]
        IN  Start(TableDoc(i), TableData(v), i)

SpecTable == InitTable /\ [][Next]_vars

\* the table text with the data row region replaced by rows
TableWith(i, rows) ==
    X_tbl \o (IF i.header THEN RowText(<<<<"N","a","m","e">>>>, FALSE) ELSE <<>>)
    \o rows
    \o (IF i.footer THEN RowText(<<<<"e","n","d">>>>, FALSE) ELSE <<>>)
    \o X_tblEnd

MarkerText == <<"{","t","a","b","l","e",":">> \o K_items \o <<"}">>

\* C3: for a row holding {table:items} and a list of N >= 1 items, the row
\* region is replaced by exactly N copies of the row, one per item in list
\* order, and the output holds no occurrence of the marker.
C3_TableRows ==
    (inp.family = "table" /\ inp.value.t = "array" /\ inp.value.items # <<>>) =>
        /\ Ran("tables") =>
              After("tables") =
                 TableWith(inp, Concat([n \in 1..Len(inp.value.items) |->
                                           RowFor(inp.row, inp.trPr, inp.value.items[n])]))
        /\ pc = "images" => ~Includes(xmlString, MarkerText)

\* C3 for data rows that carry no row properties
C3_TableRowsPlain == inp.family = "table" /\ ~inp.trPr => C3_TableRows

\* C5 as stated: with the key missing, not a list or an empty list, the marker
\* is removed, one warning is recorded and the whole row is deleted.
C5_RowDeleted ==
    (inp.family = "table" /\ inp.value \in UnusableTableData /\ Ran("tables")) =>
        /\ After("tables") = TableWith(inp, <<>>)
        /\ Len(warnings) = 1

\* C5, amended: with the key missing, not a list or an empty list, the table
\* pass removes the marker and leaves the row that held it, and all other
\* text, in place; generateDocx logs exactly one warning for it, and
\* generateDocxDetailed logs that warning only under options.debug.
C5_MarkerRemovedRowKept ==
    (inp.family = "table" /\ inp.value \in UnusableTableData /\ Ran("tables")) =>
        /\ After("tables") = TableWith(inp, RowWithoutMarker(inp.row, inp.trPr))
        /\ warnings = IF ~detailed \/ debug
                      THEN <<Warning("table data not found or empty", K_items)>>
                      ELSE <<>>

\* the marker of an empty list was removed from a row that stays, with a warning
C5_Witness ==
    /\ inp.family = "table"
    /\ pc = "images"
    /\ inp.value = Arr(<<>>)
    /\ inp.header /\ inp.footer
    /\ Len(warnings) = 1
    /\ passIn["tables"] # passIn["placeholders"]
    /\ Includes(xmlString, X_tr \o X_tc \o X_t \o <<"O","U","T">>)

---------------------------------------------------------------------------
(* Two-table runs: two data rows, each with its own marker and its own     *)
(* non-empty list, optionally separated by a row without marker.           *)

K_staff == <<"s","t","a","f","f">>

FirstRow == <<<<TableMarker(K_items), Field(K_name)>>>>
SecondRow == <<<<TableMarker(K_staff), Field(K_price)>>>>
MiddleRow == <<<<Lit(<<"-">>)>>>>

InitTwoTables ==
    \E first \in NonEmptyLists(Products), second \in NonEmptyLists(Products),
       middle \in BOOLEAN :
        Start(<<MNode(X_tbl)>> \o RowNodes(FirstRow, FALSE)
              \o (IF middle THEN RowNodes(MiddleRow, FALSE) ELSE <<>>)
              \o RowNodes(SecondRow, FALSE) \o <<MNode(X_tblEnd)>>,
              (K_items :> Arr(first)) @@ (K_staff :> Arr(second)),
              [family |-> "twotables", middle |-> middle])

SpecTwoTables == InitTwoTables /\ [][Next]_vars

\* C4: with two markers in different rows, each marker replaces the row that
\* encloses it in the text as the earlier expansions left it: after the table
\* pass the first row region holds the rows of the first list, the second row
\* region the rows of the second list, every other row is untouched, and no
\* marker is left in the output.
C4_TablesIndependent ==
    inp.family = "twotables" =>
        /\ Ran("tables") =>
              After("tables") =
                 X_tbl
                 \o Concat([n \in 1..Len(data[K_items].items) |->
                               RowFor(FirstRow, FALSE, data[K_items].items[n])])
                 \o (IF inp.middle THEN RowText(<<<<"-">>>>, FALSE) ELSE <<>>)
                 \o Concat([n \in 1..Len(data[K_staff].items) |->
                               RowFor(SecondRow, FALSE, data[K_staff].items[n])])
                 \o X_tblEnd
        /\ pc = "images" => ~Includes(xmlString, <<"{","t","a","b","l","e",":">>)

---------------------------------------------------------------------------
(* Normalizer runs: a text stream over a small alphabet, cut into <w:t>    *)
(* fragments (a repeated cut position gives an empty fragment), and        *)
(* normalizeDocxText applied to it once and then again to its own output.  *)

NormAlphabet == {"{", "}", "a"}

NormStreams == UNION {[1..n -> NormAlphabet] : n \in 0..MaxText}

\* the nondecreasing cut-position sequences of a stream of length n
CutSeqs(n) ==
    UNION {{c \in [1..m -> 0..n] : \A i \in 1..(m - 1) : c[i] <= c[i + 1]}
            : m \in 0..MaxCuts}

\* the fragments of stream s cut at c
Fragments(s, c) ==
    [j \in 1..(Len(c) + 1) |->
        Substring(s, IF j = 1 THEN 0 ELSE c[j - 1],
                     IF j = Len(c) + 1 THEN Len(s) ELSE c[j])]

NoInput == [family |-> "none"]

InitNormalize ==
    /\ \E s \in NormStreams : \E c \in CutSeqs(Len(s)) :
          documentXml = [j \in 1..(Len(c) + 1) |-> TNode(Fragments(s, c)[j])]
    /\ normOut = <<>>
    /\ data = <<>>
    /\ detailed = FALSE
    /\ debug = FALSE
    /\ pc = "normalizer"
    /\ xmlString = <<>>
    /\ passIn = <<>>
    /\ warnings = <<>>
    /\ inp = NoInput
    /\ keys = <<>>
    /\ zip = PlainPackage
    /\ outcome = [kind |-> "pending"]
    /\ scan = NotScanning
    /\ suspended = NoCall
    /\ loopAt = NotInLoop
    /\ stats = ZeroStats

\* normalizeDocxText called on the loaded document
NormalizeCall ==
    /\ pc = "normalizer"
    /\ normOut = <<>>
    /\ normOut' = <<NormalizeDocxText(documentXml)>>
    /\ UNCHANGED <<documentXml, data, detailed, debug, pc, xmlString, passIn,
                   warnings, inp, keys, zip, outcome, stats, loopAt,
                   suspended, scan>>

\* normalizeDocxText called again, on its own output
NormalizeAgain ==
    /\ pc = "normalizer"
    /\ Len(normOut) = 1
    /\ normOut' = Append(normOut, NormalizeDocxText(normOut[1]))
    /\ UNCHANGED <<documentXml, data, detailed, debug, pc, xmlString, passIn,
                   warnings, inp, keys, zip, outcome, stats, loopAt,
                   suspended, scan>>

NextNormalize == NormalizeCall \/ NormalizeAgain

SpecNormalize == InitNormalize /\ [][NextNormalize]_vars

---------------------------------------------------------------------------
(* Properties of the normalizer.                                           *)

\* the half-open range [from, to) of fragment j in the concatenated text
FragRange(texts, j) ==
    [from |-> StartIndex(texts, j), to |-> StartIndex(texts, j) + Len(texts[j])]

\* span r lies entirely inside fragment j
SpanInside(texts, j, r) ==
    FragRange(texts, j).from <= r.start /\ r.end <= FragRange(texts, j).to

\* some token-shaped span of the text crosses a fragment boundary
HasCrossingSpan(texts) ==
    \E n \in 1..Len(Replacements(FullText(texts))) :
        \A j \in 1..Len(texts) :
            ~SpanInside(texts, j, Replacements(FullText(texts))[n])

\* C7: after normalizeDocxText every token-shaped span of the concatenated
\* text lies entirely inside one fragment, and that fragment is the one that
\* held the span's first character before the call; no other fragment holds
\* any character of the span.
C7_SpansInsideFirstFragment ==
    Len(normOut) >= 1 =>
        LET before == ElementTexts(documentXml)
            after == ElementTexts(normOut[1])
            spans == Replacements(FullText(after))
        IN  \A n \in 1..Len(spans) :
                \E j \in 1..Len(after) :
                    /\ SpanInside(after, j, spans[n])
                    /\ FragRange(before, j).from <= spans[n].start
                    /\ spans[n].start < FragRange(before, j).to
                    /\ \A i \in 1..Len(after) :
                          i # j => ~( FragRange(after, i).from < spans[n].end
                                      /\ FragRange(after, i).to > spans[n].start
                                      /\ after[i] # <<>> )

\* a span that crossed two fragment boundaries has been pulled into its first fragment
C7_Witness ==
    /\ Len(normOut) >= 1
    /\ Len(documentXml) = 3
    /\ HasCrossingSpan(ElementTexts(documentXml))
    /\ \A j \in 1..3 : documentXml[j].s # <<>>
    /\ Len(Replacements(FullText(ElementTexts(normOut[1])))) = 1
    /\ normOut[1][2].s = <<>>

\* C8: normalizeDocxText leaves a fragment sequence without crossing spans
\* unchanged, and a second call on the output of a first call changes nothing.
C8_NormalizeIdempotent ==
    /\ ( /\ Len(normOut) >= 1
         /\ ~HasCrossingSpan(ElementTexts(documentXml)) ) => normOut[1] = documentXml
    /\ Len(normOut) >= 2 => normOut[2] = normOut[1]

\* a document the first call did change, normalized a second time
C8_Witness ==
    /\ Len(normOut) = 2
    /\ normOut[1] # documentXml
    /\ Replacements(FullText(ElementTexts(normOut[1]))) # <<>>

\* fragment j shares no character position with any token-shaped span
OverlapsNoSpan(texts, j) ==
    \A n \in 1..Len(Replacements(FullText(texts))) :
        LET r == Replacements(FullText(texts))[n]
        IN  ~(FragRange(texts, j).from < r.end /\ FragRange(texts, j).to > r.start)

\* C29: the concatenation, in document order, of all fragment contents is
\* the same string before and after normalizeDocxText, the number of
\* fragments is unchanged, and a fragment that overlaps no token-shaped span
\* keeps its content.
C29_TextStreamPreserved ==
    Len(normOut) >= 1 =>
        LET before == ElementTexts(documentXml)
            after == ElementTexts(normOut[1])
        IN  /\ Len(after) = Len(before)
            /\ FullText(after) = FullText(before)
            /\ \A j \in 1..Len(before) :
                  OverlapsNoSpan(before, j) => after[j] = before[j]

\* a span crossing into the last fragment was moved out of it, the last
\* fragment keeps the text behind the span, and the first fragment, which
\* overlaps no span, was not empty
C29_Witness ==
    /\ Len(normOut) >= 1
    /\ Len(documentXml) = 3
    /\ HasCrossingSpan(ElementTexts(documentXml))
    /\ documentXml[1].s # <<>>
    /\ OverlapsNoSpan(ElementTexts(documentXml), 1)
    /\ normOut[1][3].s # documentXml[3].s
    /\ normOut[1][3].s # <<>>

---------------------------------------------------------------------------
(* Runs of loops over unusable data: one or two {#refs}...{/refs} loops    *)
(* whose key is absent or holds something that is no non-empty list, with  *)
(* a placeholder and literal text around them.                             *)

UnusableLoopValues ==
    {Undefined, Null, Str(<<>>), Str(<<"a","b","c">>), Num(0), Num(7), Bool(FALSE),
     Bool(TRUE), Obj(K_valeur :> Str(<<"x">>)), Image, Arr(<<>>)}

\* the data tree: the loop key holding v (absent for Undefined), and the names
\* the loop body uses defined in the outer tree
UnusableLoopData(v) ==
    LET outer == (K_valeur :> Str(<<"O","U","T">>)) @@ (K_entite :> Num(9))
    IN  IF v = Undefined THEN outer ELSE (K_refs :> v) @@ outer

UnusableLoopTemplate(i) ==
    <<Lit(i.pre), Loop(K_refs, i.body), Field(K_valeur)>>
    \o (IF i.count = 2 THEN <<Loop(K_refs, <<Lit(<<"-">>), Field(K_entite)>>)>> ELSE <<>>)
    \o <<Lit(i.post)>>

InitUnusableLoop ==
    \E pre \in LoopAround, post \in LoopAround, body \in LoopBodies,
       v \in UnusableLoopValues, count \in {1, 2} :
        LET i == [family |-> "unusableLoop", pre |-> pre, body |-> body, post |-> post,
                  count |-> count, value |-> v]
        IN  Start(Paragraph(Render(UnusableLoopTemplate(i))), UnusableLoopData(v), i)

SpecUnusableLoop == InitUnusableLoop /\ [][Next]_vars

\* the text outside the loop constructs, as it stands after the loop pass
OutsideLoops == InParagraph(inp.pre \o Tag(<<"{">>, K_valeur) \o inp.post)

\* C11 as stated: every loop construct over unusable data expands to the empty
\* string, the text outside is kept, and each construct produces exactly one
\* warning, whichever entry point is called.
C11_OneWarningPerLoop ==
    Ran("loops") =>
        /\ After("loops") = OutsideLoops
        /\ Len(warnings) = inp.count
        /\ \A n \in 1..Len(warnings) : warnings[n].key = K_refs

\* C11 (amended): every loop construct over unusable data expands to the empty
\* string and the text outside is kept; generateDocx logs exactly one warning
\* per construct, generateDocxDetailed logs it only when options.debug is set.
C11_LoopOverUnusableData ==
    Ran("loops") =>
        /\ After("loops") = OutsideLoops
        /\ Len(warnings) = (IF ~detailed \/ debug THEN inp.count ELSE 0)
        /\ \A n \in 1..Len(warnings) : warnings[n].key = K_refs

\* generateDocx has finished on a document with two loops over an empty list
C11_Witness ==
    /\ inp.family = "unusableLoop"
    /\ pc = "done"
    /\ outcome.kind = "buffer"
    /\ ~detailed
    /\ inp.count = 2
    /\ inp.value = Arr(<<>>)
    /\ Len(warnings) = 2
    /\ passIn["loops"] # After("loops")

---------------------------------------------------------------------------
(* Embedding runs: a paragraph with {logo} and {photo} placeholders, a     *)
(* data tree holding one or two images, and a package that already has     *)
(* relationships and content-type declarations of its own.                 *)

K_logo == <<"l","o","g","o">>
K_photo == <<"p","h","o","t","o">>

X_png == <<"p","n","g">>
X_jpg == <<"j","p","g">>
X_gif == <<"g","i","f">>
X_bmp == <<"b","m","p">>

EmbedTemplates ==
    {<<Field(K_logo)>>,
     <<Field(K_logo), Lit(<<" ">>), Field(K_photo)>>,
     <<Field(K_photo), Lit(<<"-">>), Field(K_logo)>>,
     <<Field(K_logo), Lit(<<"+">>), Field(K_logo)>>}

\* what the data tree holds under photo: a second image, a string, or nothing
PhotoValues == {ImageData(<<>>, X_gif, Undefined, Undefined), Str(<<"n","o">>), Undefined}

\* the numbers of the relationship ids the package already uses
ExistingRelNumbers == {<<1>>, <<1, 2, 3>>, <<1, 100>>, <<99, 101>>}

PackageRels(numbers) ==
    [n \in 1..Len(numbers) |-> [Id |-> RelId(numbers[n]), Target |-> <<"s","t","y","l","e","s",".","x","m","l">>]]

\* a Default declaration as a word processor or another tool wrote it
Declared(ext, quote) ==
    [Extension |-> ext, ContentType |-> ImageContentType(ext), quote |-> quote]

ExistingDeclarations ==
    {<<>>,
     <<Declared(X_png, "\"")>>,
     <<Declared(X_png, "'")>>,
     <<Declared(X_jpg, "\""), Declared(<<"j","p","e","g">>, "\""), Declared(X_png, "\""),
       Declared(X_gif, "\"")>>}

EmbedData(logoExt, photo) ==
    LET logo == K_logo :> ImageData(<<>>, logoExt, Undefined, Undefined)
    IN  IF photo = Undefined THEN logo ELSE logo @@ (K_photo :> photo)

InitEmbed ==
    \E tmpl \in EmbedTemplates, photo \in PhotoValues, logoExt \in {X_png, X_jpg, X_bmp},
       numbers \in ExistingRelNumbers, decls \in ExistingDeclarations,
       logoFirst \in BOOLEAN :
        LET d == EmbedData(logoExt, photo)
            order == IF photo = Undefined THEN <<K_logo>>
                     ELSE IF logoFirst THEN <<K_logo, K_photo>> ELSE <<K_photo, K_logo>>
            i == [family |-> "embed", template |-> tmpl]
        IN  /\ (photo = Undefined => logoFirst)
            /\ StartWith(Paragraph(Render(tmpl)), d, i, order,
                         [PlainPackage EXCEPT !.rels = PackageRels(numbers),
                                              !.types = PlainPackage.types \o decls])

SpecEmbed == InitEmbed /\ [][Next]_vars

\* the invocation has returned a document with images embedded
Embedded == pc = "done" /\ outcome.kind = "buffer" /\ hasImages

\* the keys holding an image, in the order of the data tree
ImageKeys == SelectSeq(keys, LAMBDA k : data[k].t = "image")

\* the relationship id given to the image under key k
RelIdOf(k) == RelId(99 + CHOOSE n \in 1..Len(ImageKeys) : ImageKeys[n] = k)

\* C12: every relationship id assigned to an embedded image differs from every
\* id the relationships part already held and from every other id assigned in
\* the invocation, so no two relationships of the part share an id.
C12_FreshRelationshipIds ==
    Embedded =>
        \A m, n \in 1..Len(zip.rels) : m # n => zip.rels[m].Id # zip.rels[n].Id

RECURSIVE EmbeddedText(_)
\* the template with every placeholder filled: an image placeholder by the
\* embedding markup of its own image
EmbeddedText(parts) ==
    IF parts = <<>> THEN <<>>
    ELSE LET part == Head(parts)
             v == Get(data, part.key)
         IN  (IF part.k = "lit" THEN part.s
              ELSE IF v.t = "image"
              THEN createImageXML(RelIdOf(part.key), getImageSize(v.buffer), v)
              ELSE OuterFieldText(data, part.key))
             \o EmbeddedText(Tail(parts))

\* C13: every occurrence of a placeholder whose key holds an image is replaced
\* by the embedding markup of that image, and the final document text holds no
\* internal image marker.
C13_ImageMarkersResolved ==
    Embedded =>
        /\ xmlString = InParagraph(EmbeddedText(inp.template))
        /\ ~Includes(xmlString, <<"_","_","I","M","A","G","E","_","_">>)

\* C20: after a generation that embeds an image, the content-types part holds
\* a Default declaration for the extension of every embedded image, and no
\* extension is declared twice.
C20_ContentTypesDeclared ==
    Embedded =>
        /\ \A n \in 1..Len(ImageKeys) :
              \E m \in 1..Len(zip.types) :
                  zip.types[m].Extension = data[ImageKeys[n]].extension
        /\ \A m, n \in 1..Len(zip.types) :
              m # n => zip.types[m].Extension # zip.types[n].Extension

---------------------------------------------------------------------------
(* Sizing runs: a paragraph with one {logo} placeholder and an image whose *)
(* buffer encodes a pixel size in one of the formats getImageSize reads,   *)
(* with widthInches and heightInches given or not.                         *)

\* a number of inches n/d
Inches(n, d) == [t |-> "number", n |-> n, d |-> d]

\* a GIF header: signature and little-endian logical screen size
GifBytes(w, h) == <<71, 73, 70, 56, 57, 97, w % 256, w \div 256, h % 256, h \div 256>>

\* a PNG signature and IHDR chunk: big-endian width and height at bytes 16 and 20
PngBytes(w, h) ==
    <<137, 80, 78, 71, 13, 10, 26, 10, 0, 0, 0, 13, 73, 72, 68, 82,
      0, 0, w \div 256, w % 256, 0, 0, h \div 256, h % 256>>

\* a JPEG start: SOI, an APP0 segment of length 4, then SOF0 with height and width
JpegBytes(w, h) ==
    <<255, 216, 255, 224, 0, 4, 0, 0, 255, 192, 0, 17, 8,
      h \div 256, h % 256, w \div 256, w % 256, 3>>

\* buffers with the pixel size they encode (the empty buffer has no recognized
\* format and reads as 100 x 100)
SizedBuffers ==
    {[buffer |-> GifBytes(1000, 500), width |-> 1000, height |-> 500],
     [buffer |-> GifBytes(700, 1400), width |-> 700, height |-> 1400],
     [buffer |-> PngBytes(600, 450), width |-> 600, height |-> 450],
     [buffer |-> PngBytes(576, 576), width |-> 576, height |-> 576],
     [buffer |-> JpegBytes(1100, 700), width |-> 1100, height |-> 700],
     [buffer |-> JpegBytes(3, 7), width |-> 3, height |-> 7],
     [buffer |-> <<>>, width |-> 100, height |-> 100]}

InchValues == {Undefined, Inches(0, 1), Inches(4, 1), Inches(3, 1), Inches(1, 64)}

InitSizing ==
    \E b \in SizedBuffers, w \in InchValues, h \in InchValues :
        LET i == [family |-> "sizing", width |-> b.width, height |-> b.height,
                  widthInches |-> w, heightInches |-> h]
        IN  Start(Paragraph(Render(<<Field(K_logo)>>)),
                  K_logo :> ImageData(b.buffer, X_png, w, h), i)

SpecSizing == InitSizing /\ [][Next]_vars

\* the value of the first attribute name="..." in the text
AttrValue(s, name) ==
    LET i == IndexOf(s, <<" ">> \o name \o <<"=", "\"">>, 0) + Len(name) + 3
    IN  Substring(s, i, IndexOf(s, <<"\"">>, i))

RECURSIVE ParseNat(_)
\* the number written by a sequence of decimal digits
ParseNat(digits) ==
    IF digits = <<>> THEN 0
    ELSE 10 * ParseNat(SubSeq(digits, 1, Len(digits) - 1))
         + (CHOOSE v \in 0..9 : Digit(v) = digits[Len(digits)])

\* the size written into the document
EmittedCx == ParseNat(AttrValue(xmlString, <<"c","x">>))
EmittedCy == ParseNat(AttrValue(xmlString, <<"c","y">>))

\* the document holds the drawing of the image with the emitted size in both
\* of its size elements
SizeEmitted ==
    /\ inp.family = "sizing"
    /\ pc = "done"
    /\ outcome.kind = "buffer"
    /\ xmlString = InParagraph(DrawingMarkup(RelId(100), Digits(EmittedCx), Digits(EmittedCy)))

\* the integer nearest to the fraction a (non-negative)
Nearest(a) == (2 * a.n + a.d) \div (2 * a.d)

\* inches converted to native units
InNativeUnits(inches) == RMul(Rat(inches.n, inches.d), Rat(914400, 1))

\* the size prescribed for explicitly sized images, given which values count as given
ExplicitSizeHolds(widthGiven, heightGiven) ==
    LET w == inp.widthInches
        h == inp.heightInches
    IN  /\ widthGiven /\ heightGiven =>
              /\ EmittedCx = Nearest(InNativeUnits(w))
              /\ EmittedCy = Nearest(InNativeUnits(h))
        /\ widthGiven /\ ~heightGiven =>
              /\ EmittedCx = Nearest(InNativeUnits(w))
              /\ EmittedCy = Nearest(RMul(InNativeUnits(w), Rat(inp.height, inp.width)))
        /\ heightGiven /\ ~widthGiven =>
              /\ EmittedCy = Nearest(InNativeUnits(h))
              /\ EmittedCx = Nearest(RMul(InNativeUnits(h), Rat(inp.width, inp.height)))

\* C14 as stated: a width or height is given whenever the field is present; both
\* given emit exactly the converted values, one given emits its conversion and
\* the other dimension by the sniffed aspect ratio, rounded.
C14_ExplicitSizeWhenPresent ==
    (pc = "done" /\ inp.family = "sizing") =>
        /\ SizeEmitted
        /\ ExplicitSizeHolds(inp.widthInches # Undefined, inp.heightInches # Undefined)

\* C14 (amended): a width or height counts as given when it is present and not
\* zero; both given emit the converted values whatever the sniffed pixel size,
\* one given emits its conversion and the other dimension by the sniffed aspect
\* ratio, each rounded to the nearest unit (1000 x 500 px with widthInches 4
\* gives 3657600 x 1828800; widthInches 4 and heightInches 3 gives
\* 3657600 x 2743200).
C14_ExplicitSize ==
    (pc = "done" /\ inp.family = "sizing") =>
        /\ SizeEmitted
        /\ ExplicitSizeHolds(inp.widthInches \notin {Undefined, Inches(0, 1)},
                             inp.heightInches \notin {Undefined, Inches(0, 1)})
        /\ (inp.widthInches = Inches(4, 1) /\ inp.heightInches = Inches(3, 1)) =>
              EmittedCx = 3657600 /\ EmittedCy = 2743200
        /\ (inp.widthInches = Inches(4, 1) /\ inp.heightInches = Undefined
            /\ inp.width = 1000 /\ inp.height = 500) =>
              EmittedCx = 3657600 /\ EmittedCy = 1828800

\* the image sniffed as 1000 x 500 px was embedded with widthInches 4 alone
C14_Witness ==
    /\ SizeEmitted
    /\ inp.widthInches = Inches(4, 1)
    /\ inp.heightInches = Undefined
    /\ getImageSize(data[K_logo].buffer) = [width |-> 1000, height |-> 500]
    /\ EmittedCx = 3657600
    /\ EmittedCy = 1828800

\* C15: with neither widthInches nor heightInches given, the emitted width and
\* height are both at most 6 inches (5486400 units), the emitted ratio equals
\* the sniffed w : h up to the rounding of each dimension, and a size that
\* starts within both bounds is emitted as (w x 9525, h x 9525).
C15_DefaultSize ==
    (pc = "done" /\ inp.family = "sizing"
     /\ inp.widthInches = Undefined /\ inp.heightInches = Undefined) =>
        LET g == GCD(inp.width, inp.height)
            w == inp.width \div g
            h == inp.height \div g
        IN  /\ SizeEmitted
            /\ EmittedCx <= 5486400
            /\ EmittedCy <= 5486400
            /\ 2 * Abs(EmittedCx * h - EmittedCy * w) <= w + h
            /\ (inp.width * 9525 <= 5486400 /\ inp.height * 9525 <= 5486400) =>
                  EmittedCx = inp.width * 9525 /\ EmittedCy = inp.height * 9525

\* an image too wide and, after the width was capped, still too high was embedded
C15_Witness ==
    /\ SizeEmitted
    /\ inp.widthInches = Undefined
    /\ inp.heightInches = Undefined
    /\ inp.width * 9525 > 5486400
    /\ inp.height > inp.width
    /\ EmittedCy = 5486400
    /\ EmittedCx < 5486400

---------------------------------------------------------------------------
(* Anomaly runs: a paragraph holding defective constructs (a loop over a   *)
(* missing key, a placeholder of the wrong type, table markers with        *)
(* unusable data or outside any row) followed by a table with a sound      *)
(* data row and a footer row.                                              *)

\* the defective constructs of the paragraph
Defects ==
    {<<>>,
     <<Loop(K_refs, <<Field(K_valeur)>>)>>,
     <<Field(K_date)>>,
     <<TableMarker(K_staff)>>,
     <<TableMarker(K_staff), TableMarker(K_entite)>>,
     <<TableMarker(K_tasks)>>,
     <<TableMarker(K_tasks), TableMarker(K_entite)>>}

\* refs and staff are missing, date holds a list where a scalar is expected,
\* entite is an empty list, tasks is a sound list whose marker is in no row
AnomalyData(items) ==
    (K_items :> Arr(items)) @@ (K_name :> Str(<<"O","U","T">>))
    @@ (K_date :> Arr(<<Str(<<"x">>)>>)) @@ (K_entite :> Arr(<<>>))
    @@ (K_tasks :> Arr(<<Product(Str(<<"T">>), Num(1))>>))

AnomalyRow == <<<<Field(K_name), TableMarker(K_items)>>>>

AnomalyDoc(defects) ==
    Paragraph(Render(<<Lit(<<"A">>)>> \o defects \o <<Lit(<<"B">>)>>))
    \o <<MNode(X_tbl)>> \o RowNodes(AnomalyRow, FALSE) \o RowNodes(FooterRow, FALSE)
    \o <<MNode(X_tblEnd)>>

InitAnomaly ==
    \E defects \in Defects, items \in NonEmptyLists(Products) :
        Start(AnomalyDoc(defects), AnomalyData(items),
              [family |-> "anomaly", defects |-> defects])

SpecAnomaly == InitAnomaly /\ [][Next]_vars

\* C16: with defective constructs in the document, generation completes and
\* returns a document in which every defective construct has become the empty
\* string and the constructs after it are expanded as they are without the
\* defect: the data row is replaced by one row per item and the footer row is
\* untouched.
C16_AnomaliesDoNotAbort ==
    (inp.family = "anomaly" /\ pc = "done") =>
        /\ outcome.kind = "buffer"
        /\ xmlString =
              InParagraph(<<"A", "B">>) \o X_tbl
              \o Concat([n \in 1..Len(data[K_items].items) |->
                            RowFor(AnomalyRow, FALSE, data[K_items].items[n])])
              \o RowText(<<<<"e","n","d">>>>, FALSE) \o X_tblEnd

\* C16 for documents with at most one defective table marker
C16_OneDefectiveMarker ==
    (\A n \in 1..Len(inp.defects) : n > 1 => inp.defects[n].k # "table")
        => C16_AnomaliesDoNotAbort

---------------------------------------------------------------------------
(* Package runs: a document with one {logo} placeholder in a package that  *)
(* may fail to open or lack any of its parts, with or without an image in  *)
(* the data tree.                                                          *)

InitPackage ==
    \E opens \in BOOLEAN, parts \in SUBSET {DocumentPath, relsPath, contentTypesPath},
       withImage \in BOOLEAN :
        LET d == IF withImage THEN K_logo :> Image ELSE K_logo :> Str(<<"L">>)
        IN  StartWith(IF opens /\ DocumentPath \in parts
                      THEN Paragraph(Render(<<Field(K_logo)>>)) ELSE <<>>,
                      d, [family |-> "package"], <<K_logo>>,
                      [PlainPackage EXCEPT !.opens = opens, !.parts = parts])

SpecPackage == InitPackage /\ [][Next]_vars

\* the package cannot be opened or lacks a part the invocation requires
StructurallyDefective ==
    \/ ~zip.opens
    \/ DocumentPath \notin zip.parts
    \/ hasImages /\ (relsPath \notin zip.parts \/ contentTypesPath \notin zip.parts)

\* C17: on a package that cannot be opened or lacks a required part, the call
\* fails with a DocxGenerationError of code GENERATION_FAILED whose details
\* hold the underlying cause, and no buffer is returned.
C17_StructuralFailure ==
    (inp.family = "package" /\ pc = "done" /\ StructurallyDefective) =>
        /\ outcome.kind = "rejected"
        /\ outcome.error.name = "DocxGenerationError"
        /\ outcome.error.code = "GENERATION_FAILED"
        /\ outcome.error.details \in
              {LoadFailure, NullPart(DocumentPath), NullPart(relsPath),
               NullPart(contentTypesPath)}

\* C17 for generateDocxDetailed
C17_DetailedWrapsFailure == detailed => C17_StructuralFailure

\* every invocation on a defective package is rejected and returns no buffer
C17_NeverABuffer ==
    (inp.family = "package" /\ pc = "done" /\ StructurallyDefective) =>
        outcome.kind = "rejected"

---------------------------------------------------------------------------
(* Runs of a table marker outside any row: the marker sits in a paragraph, *)
(* with no table in the document, with a table after it (no row start at   *)
(* or before the marker) or with a table before it (no row end at or after *)
(* the marker).                                                            *)

NoRowShapes == {"alone", "tableAfter", "tableBefore"}

PlainTableRow == <<<<Field(K_name)>>>>

NoRowDoc(shape) ==
    LET table == <<MNode(X_tbl)>> \o RowNodes(PlainTableRow, FALSE) \o <<MNode(X_tblEnd)>>
        para == Paragraph(Render(<<Lit(<<"A">>), TableMarker(K_items), Lit(<<"B">>)>>))
    IN  CASE shape = "alone" -> para
          [] shape = "tableAfter" -> para \o table
          [] shape = "tableBefore" -> table \o para

InitNoRow ==
    \E shape \in NoRowShapes,
       v \in {Undefined, Arr(<<>>)} \cup {Arr(l) : l \in NonEmptyLists(Products)} :
        Start(NoRowDoc(shape), TableData(v),
              [family |-> "noRow", shape |-> shape, value |-> v])

SpecNoRow == InitNoRow /\ [][Next]_vars

\* the document text with the marker taken out and nothing else changed
NoRowTextWithoutMarker ==
    LET table == X_tbl \o RowText(<<Tag(<<"{">>, K_name)>>, FALSE) \o X_tblEnd
        para == InParagraph(<<"A", "B">>)
    IN  CASE inp.shape = "alone" -> para
          [] inp.shape = "tableAfter" -> para \o table
          [] inp.shape = "tableBefore" -> table \o para

---------------------------------------------------------------------------
(* Runs of row fields against the outer data tree: items that lack a field *)
(* or hold it as null, an outer data tree that defines the same keys, and  *)
(* optionally a second marked row after the first.                         *)

T_OUT == <<"O","U","T">>

RowItems ==
    {Product(Str(<<"P","e","n">>), Num(2)),
     Obj(K_name :> Str(<<"I","n","k">>)),
     Product(Null, Str(<<"1","0",".","5">>)),
     Obj(<<>>)}

StaffRow == <<<<TableMarker(K_staff), Field(K_name)>>>>
StaffList == <<Obj(K_name :> Str(<<"A","n","n">>))>>

InitRowFields ==
    \E row \in DataRows, l \in NonEmptyLists(RowItems), second \in BOOLEAN :
        Start(<<MNode(X_tbl)>> \o RowNodes(row, FALSE)
              \o (IF second THEN RowNodes(StaffRow, FALSE) ELSE <<>>)
              \o <<MNode(X_tblEnd)>>,
              (K_items :> Arr(l)) @@ (K_staff :> Arr(StaffList))
              @@ (K_name :> Str(T_OUT)) @@ (K_price :> Str(T_OUT)),
              [family |-> "rowFields", row |-> row, second |-> second])

SpecRowFields == InitRowFields /\ [][Next]_vars

\* the rows of a marked row template, one per item, fields from the item
RowsFor(cells, key) ==
    Concat([n \in 1..Len(data[key].items) |-> RowFor(cells, FALSE, data[key].items[n])])

\* C19: for a marker whose key is a non-empty list, every {field} of the row
\* template is filled, in each generated row, from that row's item, a field
\* the item lacks or holds as null becomes empty, and no {field} of the row
\* is filled from the outer data tree, which defines keys of the same names:
\* the finished text holds the rows of each marked row and no outer value.
C19_RowFieldsFromItem ==
    (inp.family = "rowFields" /\ Ran("placeholders")) =>
        /\ After("placeholders") =
              X_tbl \o RowsFor(inp.row, K_items)
              \o (IF inp.second THEN RowsFor(StaffRow, K_staff) ELSE <<>>)
              \o X_tblEnd
        /\ ~Includes(After("placeholders"), T_OUT)

\* C19 for documents with a single marked row
C19_SingleMarkedRow == (inp.family = "rowFields" /\ ~inp.second) => C19_RowFieldsFromItem

\* C19 for the field sources alone: no outer value reaches the finished text
C19_NoOuterValue ==
    (inp.family = "rowFields" /\ Ran("placeholders")) =>
        ~Includes(After("placeholders"), T_OUT)

---------------------------------------------------------------------------
(* Sniffing runs: one image whose buffer is any short byte sequence over   *)
(* the bytes of the three signatures, or any truncation of a well-formed   *)
(* PNG, JPEG or GIF header, embedded with no explicit size.                *)

MaxBytes == 2

SignatureBytes == {137, 80, 255, 216, 71, 73, 0}

Prefixes(bytes) == {SubSeq(bytes, 1, n) : n \in 0..Len(bytes)}

SniffBuffers ==
    UNION {[1..n -> SignatureBytes] : n \in 0..MaxBytes}
    \cup Prefixes(PngBytes(600, 450))
    \cup Prefixes(JpegBytes(1100, 700))
    \cup Prefixes(GifBytes(1000, 500))
    \cup {<<137, 80, 78, 70>>, <<71, 73, 70, 57, 57, 97, 1, 0, 1, 0>>,
          <<255, 217, 255, 192, 0, 17, 8, 0, 9, 0, 9, 3>>}

InitSniff ==
    \E b \in SniffBuffers :
        Start(Paragraph(Render(<<Field(K_logo)>>)),
              K_logo :> ImageData(b, X_png, Undefined, Undefined),
              [family |-> "sniff"])

SpecSniff == InitSniff /\ [][Next]_vars

\* the leading bytes are the PNG signature 89 50 4E 47, the JPEG signature
\* FF D8 or the GIF signature "GIF8"
HasSignature(bytes) ==
    \/ Len(bytes) >= 4 /\ SubSeq(bytes, 1, 4) = <<137, 80, 78, 71>>
    \/ Len(bytes) >= 2 /\ SubSeq(bytes, 1, 2) = <<255, 216>>
    \/ Len(bytes) >= 4 /\ SubSeq(bytes, 1, 4) = <<71, 73, 70, 56>>

Fallback == [width |-> 100, height |-> 100]

\* C21: getImageSize returns a (width, height) pair of integers for every byte
\* sequence, the empty one and truncated headers included, the invocation
\* that sniffs it ends with a buffer, and the pair is (100, 100) whenever the
\* leading bytes match none of the three signatures; the image is then
\* embedded with the fallback size.
C21_SniffingTotal ==
    (inp.family = "sniff" /\ pc = "done") =>
        LET bytes == data[K_logo].buffer
            dims == getImageSize(bytes)
        IN  /\ outcome.kind = "buffer"
            /\ DOMAIN dims = {"width", "height"}
            /\ dims.width \in Int
            /\ dims.height \in Int
            /\ xmlString = InParagraph(createImageXML(RelId(100), dims, data[K_logo]))
            /\ ~HasSignature(bytes) =>
                  /\ dims = Fallback
                  /\ xmlString = InParagraph(DrawingMarkup(RelId(100), Digits(952500),
                                                           Digits(952500)))

\* a PNG signature cut after its third byte was sniffed as the fallback size
C21_Witness ==
    /\ inp.family = "sniff"
    /\ pc = "done"
    /\ outcome.kind = "buffer"
    /\ data[K_logo].buffer = <<137, 80, 78>>
    /\ getImageSize(data[K_logo].buffer) = Fallback
    /\ EmittedCx = 952500
    /\ EmittedCy = 952500

---------------------------------------------------------------------------
(* Statistics runs: a paragraph that may hold a {table:staff} marker, with *)
(* no row around it, followed by a table whose data row holds              *)
(* {table:items}; either key may hold a list or nothing usable.            *)

StatsDoc(lead) ==
    (IF lead THEN Paragraph(Render(<<TableMarker(K_staff), Lit(<<"A">>)>>)) ELSE <<>>)
    \o <<MNode(X_tbl)>>
    \o RowNodes(<<<<TableMarker(K_items), Field(K_name)>>>>, FALSE)
    \o <<MNode(X_tblEnd)>>

StatsLists == {Undefined, Arr(<<>>), Str(<<"x">>)} \cup {Arr(l) : l \in NonEmptyLists(Products)}

InitStats ==
    \E lead \in BOOLEAN, staff \in {Undefined, Arr(StaffList)}, items \in StatsLists :
        LET d == (IF staff = Undefined THEN <<>> ELSE (K_staff :> staff))
                 @@ (IF items = Undefined THEN <<>> ELSE (K_items :> items))
        IN  Start(StatsDoc(lead), d, [family |-> "stats", lead |-> lead])

SpecStats == InitStats /\ [][Next]_vars

\* the rows of the table, when the row of {table:items} was replaced
StatsRowsGenerated ==
    X_tbl \o RowsFor(<<<<TableMarker(K_items), Field(K_name)>>>>, K_items) \o X_tblEnd

\* the number of markers whose row was replaced by generated rows: the marker
\* of the paragraph is always dropped, the marker of the data row is replaced
\* when its key holds a non-empty list
RowsActuallyReplaced == IF UsableList(data, K_items) THEN 1 ELSE 0

\* C24: stats.tablesGenerated of generateDocxDetailed equals the number of
\* {table:name} markers whose row was actually replaced by generated rows;
\* a marker dropped for missing, non-list or empty data, or for lack of an
\* enclosing row, is not counted.
C24_TablesGenerated ==
    (inp.family = "stats" /\ detailed /\ pc = "done" /\ outcome.kind = "buffer") =>
        /\ UsableList(data, K_items) =>
              Includes(After("tables"), StatsRowsGenerated)
        /\ stats.tablesGenerated = RowsActuallyReplaced

\* C24 for documents in which no marker is dropped
C24_NoMarkerDropped ==
    (inp.family = "stats" /\ ~inp.lead /\ UsableList(data, K_items)) => C24_TablesGenerated

\* what the counter holds: the number of markers found before the table loop
C24_MarkersFound ==
    (inp.family = "stats" /\ detailed /\ pc = "done") =>
        stats.tablesGenerated = (IF inp.lead THEN 2 ELSE 1)

---------------------------------------------------------------------------
(* Two invocations on one event loop.  The variables of the module hold    *)
(* the invocation that runs; suspended holds the one that waits at an      *)
(* await.  Control changes hands only at an await: after the call, once    *)
(* the document part is read, at each await of the image loop, while the   *)
(* package is generated, and when an invocation has returned.              *)

\* FunctionLocal for a variable declared at module level: one for all activations
ModuleLevel(own, last) == last

\* a variable declared with let inside the function body: each activation has
\* its own, so a resumed invocation finds the value it left (own), not the
\* value the variable had in the invocation that ran last (last)
FunctionLocal(own, last) == own

\* the running invocation, as it is put aside at an await
Frame ==
    [documentXml |-> documentXml, normOut |-> normOut, data |-> data,
     detailed |-> detailed, debug |-> debug, pc |-> pc, xmlString |-> xmlString,
     passIn |-> passIn, warnings |-> warnings, inp |-> inp, keys |-> keys,
     zip |-> zip, outcome |-> outcome, stats |-> stats, loopAt |-> loopAt]

AwaitPoints == {"load", "normalize", "imageLoop", "generate", "done"}

\* the running invocation waits at an await and the other one is resumed
Yield ==
    /\ pc \in AwaitPoints
    /\ suspended.pc \notin {"none", "done"}
    /\ suspended' = Frame
    /\ documentXml' = suspended.documentXml
    /\ normOut' = suspended.normOut
    /\ data' = suspended.data
    /\ detailed' = suspended.detailed
    /\ debug' = suspended.debug
    /\ pc' = suspended.pc
    /\ xmlString' = suspended.xmlString
    /\ passIn' = suspended.passIn
    /\ warnings' = suspended.warnings
    /\ inp' = suspended.inp
    /\ keys' = suspended.keys
    /\ zip' = suspended.zip
    /\ outcome' = suspended.outcome
    /\ stats' = FunctionLocal(suspended.stats, stats)
    /\ loopAt' = FunctionLocal(suspended.loopAt, loopAt)
    /\ UNCHANGED scan

\* the "if (hasImages)" block up to the first await inside it
ImagesOpen ==
    /\ pc = "images"
    /\ passIn' = ("images" :> xmlString) @@ passIn
    /\ IF ~hasImages THEN pc' = "generate" /\ UNCHANGED <<outcome, loopAt>>
       ELSE IF relsPath \notin zip.parts
       THEN Throw(NullPart(relsPath)) /\ UNCHANGED loopAt
       ELSE pc' = "imageLoop" /\ loopAt' = NotInLoop /\ UNCHANGED outcome
    /\ UNCHANGED <<documentXml, normOut, data, detailed, debug, xmlString, warnings,
                   inp, keys, zip, stats, suspended, scan>>

\* one entry of Object.entries(data) in the image loop
ImageStep ==
    /\ pc = "imageLoop"
    /\ loopAt.entry <= Len(keys)
    /\ LET st == ImageLoop([media |-> zip.media, rels |-> zip.rels, docXml |-> xmlString,
                            relIdCounter |-> loopAt.relIdCounter],
                           data, <<keys[loopAt.entry]>>, 1)
       IN  /\ zip' = [zip EXCEPT !.media = st.media, !.rels = st.rels]
           /\ xmlString' = st.docXml
           /\ loopAt' = [relIdCounter |-> st.relIdCounter, entry |-> loopAt.entry + 1]
           /\ stats' = Counted([ZeroStats EXCEPT
                                   !.imagesEmbedded = st.relIdCounter - loopAt.relIdCounter])
    /\ UNCHANGED <<documentXml, normOut, data, detailed, debug, pc, passIn, warnings,
                   inp, keys, outcome, suspended, scan>>

\* after the image loop: the relationships are written and the content types updated
ImagesClose ==
    /\ pc = "imageLoop"
    /\ loopAt.entry > Len(keys)
    /\ IF contentTypesPath \notin zip.parts
       THEN Throw(NullPart(contentTypesPath)) /\ UNCHANGED zip
       ELSE /\ zip' = [zip EXCEPT !.types = zip.types \o AddedDefaults(zip.types)]
            /\ pc' = "generate"
            /\ UNCHANGED outcome
    /\ UNCHANGED <<documentXml, normOut, data, detailed, debug, xmlString, passIn,
                   warnings, inp, keys, stats, loopAt, suspended, scan>>

NextTwoCalls ==
    \/ Load \/ Normalize \/ Loops \/ Conditionals \/ Tables \/ Placeholders
    \/ ImagesOpen \/ ImageStep \/ ImagesClose \/ Generate \/ Yield

\* the document/data pairs of the two invocations
CallInputs ==
    {[name |-> "images",
      doc |-> Paragraph(Render(<<Field(K_logo), Lit(<<" ">>), Field(K_photo),
                                 Field(K_name)>>)),
      data |-> (K_logo :> Image)
               @@ (K_photo :> ImageData(GifBytes(1000, 500), X_gif, Undefined, Undefined))
               @@ (K_name :> Str(<<"A","n","n">>)),
      keys |-> <<K_logo, K_photo, K_name>>],
     [name |-> "loop",
      doc |-> Paragraph(Render(<<Loop(K_tasks, <<Field(K_title)>>), TableMarker(K_items),
                                 Field(K_logo)>>)),
      data |-> (K_tasks :> Arr(<<TaskA, TaskB>>))
               @@ (K_logo :> ImageData(<<>>, X_jpg, Undefined, Undefined)),
      keys |-> <<K_tasks, K_logo>>],
     [name |-> "cond",
      doc |-> Paragraph(Render(<<IfElse(K_flag, <<Lit(<<"A">>)>>, <<Lit(<<"B">>)>>),
                                 Field(K_name)>>)),
      data |-> (K_flag :> Bool(TRUE)) @@ (K_name :> Num(7)),
      keys |-> <<K_flag, K_name>>]}

\* an invocation that has been called and has not run yet
Called(in, inv, n) ==
    [documentXml |-> in.doc, normOut |-> <<>>, data |-> in.data,
     detailed |-> inv.detailed, debug |-> inv.debug, pc |-> "load", xmlString |-> <<>>,
     passIn |-> <<>>, warnings |-> <<>>,
     inp |-> [family |-> "twoCalls", call |-> n, input |-> in.name],
     keys |-> in.keys, zip |-> PlainPackage, outcome |-> [kind |-> "pending"],
     stats |-> ZeroStats, loopAt |-> NotInLoop]

InitTwoCalls ==
    \E a \in CallInputs, b \in CallInputs, ia \in Invocations, ib \in Invocations :
        LET first == Called(a, ia, 1)
        IN  /\ documentXml = first.documentXml
            /\ normOut = first.normOut
            /\ data = first.data
            /\ detailed = first.detailed
            /\ debug = first.debug
            /\ pc = first.pc
            /\ xmlString = first.xmlString
            /\ passIn = first.passIn
            /\ warnings = first.warnings
            /\ inp = first.inp
            /\ keys = first.keys
            /\ zip = first.zip
            /\ outcome = first.outcome
            /\ stats = first.stats
            /\ loopAt = first.loopAt
            /\ suspended = Called(b, ib, 2)
            /\ scan = NotScanning

SpecTwoCalls == InitTwoCalls /\ [][NextTwoCalls]_vars

\* what the invocation of frame c produces when it runs alone: every pass
\* applied in turn to c's own document and data
Alone(c) ==
    LET d == c.data
        logs == ~c.detailed \/ c.debug
        s0 == Serialize(NormalizeDocxText(c.documentXml))
        loops == LoopPass(s0, d)
        conds == CondPass(loops.text, d)
        tables == TablePass(conds.text, d)
        simple == SimplePass(tables.text, d)
        images == \E k \in DOMAIN d : d[k].t = "image"
        st == ImageLoop([media |-> PlainPackage.media, rels |-> PlainPackage.rels,
                         docXml |-> simple.text, relIdCounter |-> 100], d, c.keys, 1)
        counted == [x \in DOMAIN ZeroStats |->
                       PassStats("loops", s0, d)[x]
                       + PassStats("conditionals", loops.text, d)[x]
                       + PassStats("tables", conds.text, d)[x]
                       + PassStats("placeholders", tables.text, d)[x]]
    IN  [text |-> IF images THEN st.docXml ELSE simple.text,
         warnings |-> IF logs THEN loops.warns \o tables.warns ELSE <<>>,
         stats |-> IF c.detailed
                   THEN [counted EXCEPT !.imagesEmbedded = ImagesCounted(d, c.keys)]
                   ELSE ZeroStats,
         zip |-> IF images
                 THEN [PlainPackage EXCEPT
                          !.media = st.media, !.rels = st.rels,
                          !.types = PlainPackage.types \o AddedDefaults(PlainPackage.types)]
                 ELSE PlainPackage]

\* the invocation of frame c has returned what it returns when run alone
ReturnedAsAlone(c) ==
    /\ c.outcome.kind = "buffer"
    /\ [text |-> c.xmlString, warnings |-> c.warnings, stats |-> c.stats, zip |-> c.zip]
          = Alone(c)

\* an invocation that runs with no other one returns what Alone gives
SingleRunIsAlone == (pc = "done" /\ suspended = NoCall) => ReturnedAsAlone(Frame)

---------------------------------------------------------------------------
(* Nesting runs: a loop inside a branch of a conditional, and a            *)
(* conditional inside a loop body, the conditional on a key of the outer   *)
(* data tree: a flag, a key the items define as well (done), or the list   *)
(* of the loop itself (tasks).                                             *)

NestBody == <<Field(K_title), Lit(<<";">>)>>

\* a loop inside the if branch, alone in it, or inside the else branch
LoopInCond(k) ==
    {<<Lit(<<"a">>),
       IfElse(k, <<Lit(<<"X">>), Loop(K_tasks, NestBody), Lit(<<"Y">>)>>, <<Lit(<<"N">>)>>),
       Lit(<<"b">>)>>,
     <<If(k, <<Loop(K_tasks, NestBody)>>)>>,
     <<IfElse(k, <<Lit(<<"Y">>)>>, <<Loop(K_tasks, NestBody)>>)>>}

\* a conditional inside the loop body, with and without an else branch
CondInLoop(k) ==
    {<<Loop(K_tasks, <<Lit(<<"[">>),
                       IfElse(k, <<Field(K_title)>>, <<Lit(<<"n","o">>), Field(K_done)>>),
                       Lit(<<"]">>)>>)>>,
     <<Lit(<<"a">>), Loop(K_tasks, <<If(k, <<Field(K_title)>>)>>), Lit(<<"b">>)>>}

NestFlags == {Undefined, Bool(TRUE), Bool(FALSE), Str(<<"0">>)}

NestData(v, tasks) ==
    (IF v = Undefined THEN <<>> ELSE (K_flag :> v) @@ (K_done :> v))
    @@ (K_tasks :> Arr(tasks)) @@ (K_title :> Str(<<"T","o","p">>))

InitNest ==
    \E k \in {K_flag, K_done, K_tasks}, inLoop \in BOOLEAN, v \in NestFlags,
       tasks \in NonEmptyLists({TaskA, TaskB, TaskC}) :
        \E t \in (IF inLoop THEN CondInLoop(k) ELSE LoopInCond(k)) :
            Start(Paragraph(Render(t)), NestData(v, tasks),
                  [family |-> "nest", parts |-> t, key |-> k, inLoop |-> inLoop])

SpecNest == InitNest /\ [][Next]_vars

RECURSIVE BodyText(_, _, _)
\* one instance of a loop body for an item: the chosen branch of a conditional
\* of the body is chosen by the outer data tree d and filled from the item
BodyText(parts, item, d) ==
    IF parts = <<>> THEN <<>>
    ELSE LET p == Head(parts)
         IN  (CASE p.k = "lit" -> p.s
                [] p.k = "field" -> ItemFieldText(item, p.key)
                [] p.k = "cond" ->
                     ItemText(IF DocumentedTruthy(d, p.key) THEN p.yes ELSE p.no, item))
             \o BodyText(Tail(parts), item, d)

RECURSIVE NestedText(_, _)
\* the finished text of a template with one level of nesting
NestedText(parts, d) ==
    IF parts = <<>> THEN <<>>
    ELSE LET p == Head(parts)
         IN  (CASE p.k = "lit" -> p.s
                [] p.k = "cond" ->
                     ExpectedAt("placeholders",
                                IF DocumentedTruthy(d, p.key) THEN p.yes ELSE p.no, d)
                [] p.k = "loop" ->
                     Concat([n \in 1..Len(d[p.key].items) |->
                                BodyText(p.body, d[p.key].items[n], d)]))
             \o NestedText(Tail(parts), d)

\* no loop or conditional tag is left in the text
NoTagLeft(s) ==
    /\ ~Includes(s, <<"{","#">>)
    /\ ~Includes(s, <<"{","?">>)
    /\ ~Includes(s, <<"{","/">>)
    /\ ~Includes(s, ElseTag)

NestResolved ==
    /\ xmlString = InParagraph(NestedText(inp.parts, data))
    /\ NoTagLeft(xmlString)

---------------------------------------------------------------------------
(* Sibling-loop runs: two loops of the same name, {#tasks}A{/tasks} X      *)
(* {#tasks}B{/tasks}, with text or a placeholder between them.             *)

SiblingBodies == {<<Field(K_title)>>, <<Lit(<<"-">>), Field(K_done)>>, <<>>}

SiblingBetween == {<<>>, <<Lit(<<"X">>)>>, <<Field(K_name)>>}

SiblingLists ==
    {Undefined, Arr(<<>>)} \cup {Arr(l) : l \in NonEmptyLists({TaskA, TaskB, TaskC})}

InitSiblings ==
    \E a \in SiblingBodies, b \in SiblingBodies, x \in SiblingBetween, v \in SiblingLists :
        Start(Paragraph(Render(<<Loop(K_tasks, a)>> \o x \o <<Loop(K_tasks, b)>>)),
              (IF v = Undefined THEN <<>> ELSE (K_tasks :> v))
              @@ (K_name :> Str(<<"A","m","y">>)),
              [family |-> "siblings", a |-> a, x |-> x, b |-> b])

SpecSiblings == InitSiblings /\ [][Next]_vars

\* the instances of body, one per item of tasks; nothing for an unusable list
Instances(body) ==
    IF UsableList(data, K_tasks)
    THEN Concat([n \in 1..Len(data[K_tasks].items) |->
                    ItemText(body, data[K_tasks].items[n])])
    ELSE <<>>

\* C25: with two sibling loops of the same name, {#k}A{/k}X{#k}B{/k}, each
\* loop is expanded on its own body, A then B, and the text X between them
\* is kept once, unrepeated: the first loop ends at the nearest {/k}.
C25_NearestCloseTag ==
    (inp.family = "siblings" /\ Ran("loops")) =>
        After("loops") = InParagraph(Instances(inp.a) \o Render(inp.x) \o Instances(inp.b))

\* two sibling loops over two tasks were expanded around the text X
C25_Witness ==
    /\ inp.family = "siblings"
    /\ Ran("loops")
    /\ inp.a = <<Field(K_title)>>
    /\ inp.b = <<Lit(<<"-">>), Field(K_done)>>
    /\ inp.x = <<Lit(<<"X">>)>>
    /\ Get(data, K_tasks) = Arr(<<TaskA, TaskB>>)
    /\ After("loops") = InParagraph(<<"A","B","X","-","y","e","s","-","n","o">>)

---------------------------------------------------------------------------
(* Loop-item runs: lists whose items may be null or absent (undefined),    *)
(* or objects that lack a field or hold it as null, under an outer data    *)
(* tree that defines the body's field names.                               *)

ItemChoices ==
    {TaskA, Null, Undefined, Obj(K_title :> Str(<<"B">>)), Task(Null, Num(0))}

ItemBody == <<Field(K_title), Lit(<<"/">>), Field(K_done), Lit(<<";">>)>>

InitLoopItems ==
    \E l \in NonEmptyLists(ItemChoices), pre \in {<<>>, <<"a">>}, post \in {<<>>, <<"b">>} :
        Start(Paragraph(pre \o Render(<<Loop(K_tasks, ItemBody)>>) \o post),
              (K_tasks :> Arr(l)) @@ (K_title :> Str(<<"T","o","p">>)) @@ (K_done :> Num(1)),
              [family |-> "loopItems", pre |-> pre, post |-> post])

SpecLoopItems == InitLoopItems /\ [][Next]_vars

\* the items that are neither null nor absent
PresentItems == SelectSeq(data[K_tasks].items, LAMBDA it : it \notin {Null, Undefined})

---------------------------------------------------------------------------
(* The JPEG branch of getImageSize, one iteration of its while loop at a   *)
(* time, on buffers that start with FF D8 and go on with marker segments   *)
(* of any declared length, stray bytes and frame headers.                  *)

MaxSegments == 2

\* the pieces a buffer is made of after FF D8: segments with a declared length
\* of 4, of 0 and of 65535 (far past the end), a doubled FF, a stray byte, a
\* frame header (SOF0, 9 x 5) and a frame header of another kind (SOF2, 7 x 3)
ScanPieces ==
    {<<255, 224, 0, 4, 1, 1>>,
     <<255, 224, 0, 0>>,
     <<255, 225, 255, 255>>,
     <<255, 255>>,
     <<7>>,
     <<255, 192, 0, 17, 8, 0, 5, 0, 9>>,
     <<255, 194, 0, 17, 8, 0, 3, 0, 7>>}

\* what follows the pieces: nothing, or enough bytes for every header to be read
ScanTails == {<<>>, <<0, 0, 0, 0, 0, 0, 0, 0, 0>>}

JpegBuffers ==
    {<<255, 216>> \o Concat(ps) \o t :
        ps \in UNION {[1..n -> ScanPieces] : n \in 0..MaxSegments}, t \in ScanTails}

InitJpegScan ==
    /\ \E b \in JpegBuffers :
          /\ data = (K_logo :> ImageData(b, X_jpg, Undefined, Undefined))
          /\ inp = [family |-> "jpegScan"]
    /\ pc = "getImageSize"
    /\ scan = NotScanning
    /\ documentXml = <<>>
    /\ normOut = <<>>
    /\ detailed = FALSE
    /\ debug = FALSE
    /\ xmlString = <<>>
    /\ passIn = <<>>
    /\ warnings = <<>>
    /\ keys = <<K_logo>>
    /\ zip = PlainPackage
    /\ outcome = [kind |-> "pending"]
    /\ stats = ZeroStats
    /\ loopAt = NotInLoop
    /\ suspended = NoCall

\* the buffer handed to getImageSize
ScanBytes == data[K_logo].buffer

\* NextMarker as "i += length": the two bytes of the marker are not skipped
NextMarkerLengthOnly(i, length) == i + length

\* "i += length + 2"
NextMarker(i, length) == i + length + 2

\* the tests before the JPEG branch and the entry into it
SniffJpeg ==
    /\ pc = "getImageSize"
    /\ IF ByteIs(ScanBytes, 0, 137) /\ ByteIs(ScanBytes, 1, 80) /\ ByteIs(ScanBytes, 2, 78)
          /\ ByteIs(ScanBytes, 3, 71)
       THEN /\ pc' = "returned"
            /\ scan' = [scan EXCEPT !.returned = TRUE,
                                    !.dims = [width |-> BigEndian32(ScanBytes, 16),
                                              height |-> BigEndian32(ScanBytes, 20)]]
       ELSE IF ByteIs(ScanBytes, 0, 255) /\ ByteIs(ScanBytes, 1, 216)
       THEN pc' = "jpegScan" /\ scan' = NotScanning
       ELSE /\ pc' = "returned"
            /\ scan' = [i |-> 2, visited |-> <<>>, returned |-> TRUE,
                        dims |-> getImageSize(ScanBytes)]
    /\ UNCHANGED <<documentXml, normOut, data, detailed, debug, xmlString, passIn,
                   warnings, inp, keys, zip, outcome, stats, loopAt, suspended>>

\* one evaluation of "while (i < bytes.length - 8)" and of the loop body; when
\* the loop ends without a frame the GIF test fails on FF and the fallback
\* is returned
ScanIteration ==
    /\ pc = "jpegScan"
    /\ LET i == scan.i
           marker == ScanBytes[i + 2]
           length == BigEndian16(ScanBytes, i + 2)
       IN  IF ~(i < Len(ScanBytes) - 8)
           THEN /\ pc' = "returned"
                /\ scan' = [i |-> i, visited |-> scan.visited, returned |-> TRUE,
                            dims |-> [width |-> 100, height |-> 100]]
           ELSE IF ByteIs(ScanBytes, i, 255)
           THEN IF marker >= 192 /\ marker <= 195
                THEN /\ pc' = "returned"
                     /\ scan' = [i |-> i, visited |-> Append(scan.visited, i),
                                 returned |-> TRUE,
                                 dims |-> [width |-> BigEndian16(ScanBytes, i + 7),
                                           height |-> BigEndian16(ScanBytes, i + 5)]]
                ELSE /\ pc' = pc
                     /\ scan' = [scan EXCEPT !.i = NextMarker(i, length),
                                             !.visited = Append(scan.visited, i)]
           ELSE /\ pc' = pc
                /\ scan' = [scan EXCEPT !.i = i + 1, !.visited = Append(scan.visited, i)]
    /\ UNCHANGED <<documentXml, normOut, data, detailed, debug, xmlString, passIn,
                   warnings, inp, keys, zip, outcome, stats, loopAt, suspended>>

NextJpeg == SniffJpeg \/ ScanIteration

\* the scan runs on: a call of getImageSize is not abandoned halfway
SpecJpegScan == InitJpegScan /\ [][NextJpeg]_vars /\ WF_vars(NextJpeg)

\* position p holds a Start-Of-Frame marker: FF and a second byte C0 to C3
FrameAt(p) ==
    ByteIs(ScanBytes, p, 255) /\ \E m \in 192..195 : ByteIs(ScanBytes, p + 1, m)

\* the scan has returned
ScanReturned == pc = "returned" /\ scan.returned

\* the positions examined increase strictly and stay inside the buffer, none
\* before the last holds a frame marker, and what is returned is the height
\* and width that follow the frame marker reached, or 100 x 100 when the scan
\* left the buffer without reaching one
ScanSound ==
    /\ \A n \in 1..Len(scan.visited) :
          /\ scan.visited[n] >= 2
          /\ scan.visited[n] < Len(ScanBytes) - 8
          /\ n > 1 => scan.visited[n - 1] < scan.visited[n]
          /\ (n < Len(scan.visited) \/ ~scan.returned) => ~FrameAt(scan.visited[n])
    /\ ScanReturned =>
          \/ /\ FrameAt(scan.i)
             /\ scan.i + 8 < Len(ScanBytes)
             /\ scan.dims = [width |-> ScanBytes[scan.i + 8] * 256 + ScanBytes[scan.i + 9],
                             height |-> ScanBytes[scan.i + 6] * 256 + ScanBytes[scan.i + 7]]
          \/ /\ ~(scan.i < Len(ScanBytes) - 8)
             /\ scan.dims = Fallback
    /\ ScanReturned => scan.dims = getImageSize(ScanBytes)

\* C27: for every byte sequence that starts with FF D8, whatever the declared
\* segment lengths (zero and lengths past the end included), the marker scan
\* ends after finitely many steps, and it returns the height and width of the
\* first Start-Of-Frame marker it reaches or the 100 x 100 fallback.
C27_JpegScanTerminates == <>ScanReturned /\ []ScanSound

\* the scan passed a segment of declared length zero and returned the size of
\* the frame header behind it
C27_Witness ==
    /\ inp.family = "jpegScan"
    /\ ScanReturned
    /\ Len(ScanBytes) >= 6
    /\ SubSeq(ScanBytes, 1, 6) = <<255, 216, 255, 224, 0, 0>>
    /\ scan.visited = <<2, 4, 5, 6>>
    /\ scan.dims = [width |-> 9, height |-> 5]

---------------------------------------------------------------------------
(* Runs on damaged image headers: a PNG signature with nothing behind it,  *)
(* stored sizes of zero, a stored width with its top bit set, next to      *)
(* sound headers, under each sizing policy.                                *)

\* a PNG header with the given bytes of the width field and height h
PngWidthBytes(b0, b1, b2, b3, h) ==
    <<137, 80, 78, 71, 13, 10, 26, 10, 0, 0, 0, 13, 73, 72, 68, 82,
      b0, b1, b2, b3, 0, 0, h \div 256, h % 256>>

DamagedBuffers ==
    {<<137, 80, 78, 71>>,
     PngWidthBytes(0, 0, 0, 0, 5),
     PngWidthBytes(0, 0, 0, 9, 0),
     PngWidthBytes(255, 255, 255, 255, 3),
     PngWidthBytes(255, 255, 255, 0, 3),
     <<71, 73, 70, 56>>,
     GifBytes(0, 7),
     JpegBytes(9, 0),
     JpegBytes(0, 0),
     PngBytes(600, 450),
     GifBytes(1000, 500),
     <<>>}

InitDamaged ==
    \E b \in DamagedBuffers, w \in {Undefined, Inches(4, 1)}, h \in {Undefined, Inches(3, 1)} :
        Start(Paragraph(Render(<<Field(K_logo)>>)),
              K_logo :> ImageData(b, X_png, w, h),
              [family |-> "damaged", widthInches |-> w, heightInches |-> h])

SpecDamaged == InitDamaged /\ [][Next]_vars

\* the text writes a whole, non-negative number: decimal digits only
WholeNumber(text) ==
    /\ text # <<>>
    /\ \A n \in 1..Len(text) : \E v \in 0..9 : text[n] = Digit(v)

\* C28: for every image byte sequence (truncated headers and headers whose
\* stored width or height is zero or has its top bit set included) and every
\* sizing policy, the cx and cy written into the embedding markup are whole,
\* non-negative numbers, and no size is divided by zero.
C28_DimensionsWellDefined ==
    (inp.family = "damaged" /\ pc = "done") =>
        LET dims == getImageSize(data[K_logo].buffer)
            cx == AttrValue(xmlString, <<"c","x">>)
            cy == AttrValue(xmlString, <<"c","y">>)
        IN  /\ outcome.kind = "buffer"
            /\ xmlString = InParagraph(DrawingMarkup(RelId(100), cx, cy))
            /\ WholeNumber(cx)
            /\ WholeNumber(cy)
            /\ (inp.widthInches # Undefined /\ inp.heightInches = Undefined) => dims.width # 0
            /\ (inp.heightInches # Undefined /\ inp.widthInches = Undefined) => dims.height # 0

\* C28 for headers whose stored width and height are positive
C28_PositiveSizes ==
    (inp.family = "damaged"
     /\ getImageSize(data[K_logo].buffer).width > 0
     /\ getImageSize(data[K_logo].buffer).height > 0) => C28_DimensionsWellDefined

\* C28 for the default policy on headers whose stored sizes are not negative
C28_DefaultPolicyUnsigned ==
    (inp.family = "damaged"
     /\ inp.widthInches = Undefined /\ inp.heightInches = Undefined
     /\ getImageSize(data[K_logo].buffer).width >= 0
     /\ getImageSize(data[K_logo].buffer).height >= 0) => C28_DimensionsWellDefined

---------------------------------------------------------------------------
(* Runs of data that looks like template text: loop items and table rows   *)
(* whose field values are strings of the shape of a token, under an outer  *)
(* data tree that may define the key the string names.                     *)

T_PEN == <<"P","e","n">>
T_NAME_TOKEN == <<"{","n","a","m","e","}">>
T_DATE_TOKEN == <<"{","d","a","t","e","}">>
T_HALF_TOKEN == <<"a","{","b">>

InsertedTexts == {T_PEN, T_NAME_TOKEN, T_DATE_TOKEN, T_HALF_TOKEN}

\* the texts that hold no token-shaped span
PlainTexts == {t \in InsertedTexts : Replacements(t) = <<>>}

VerbatimRow == <<<<TableMarker(K_items), Field(K_title)>>>>
VerbatimBody == <<Field(K_title), Lit(<<";">>)>>

\* the list whose items hold the given texts as their title
TitledItems(texts) == [n \in 1..Len(texts) |-> Obj(K_title :> Str(texts[n]))]

InitVerbatim ==
    \E texts \in NonEmptyLists(InsertedTexts), shape \in {"loop", "table"}, outer \in BOOLEAN :
        Start(IF shape = "loop"
              THEN Paragraph(Render(<<Loop(K_tasks, VerbatimBody)>>))
              ELSE <<MNode(X_tbl)>> \o RowNodes(VerbatimRow, FALSE) \o <<MNode(X_tblEnd)>>,
              (K_tasks :> Arr(TitledItems(texts))) @@ (K_items :> Arr(TitledItems(texts)))
              @@ (IF outer THEN K_name :> Str(T_OUT) ELSE <<>>),
              [family |-> "verbatim", shape |-> shape, texts |-> texts])

SpecVerbatim == InitVerbatim /\ [][Next]_vars

\* the text the template gives when every inserted string stays as it is
VerbatimText ==
    IF inp.shape = "loop"
    THEN InParagraph(Concat([n \in 1..Len(inp.texts) |-> inp.texts[n] \o <<";">>]))
    ELSE X_tbl \o RowsFor(VerbatimRow, K_items) \o X_tblEnd

\* C30: a string taken from the data tree and inserted by the loop pass or
\* the table pass appears verbatim in the final text, even when the string
\* has the shape of a token; the later passes expand no token that was not
\* in the template.
C30_DataNotReinterpreted ==
    (inp.family = "verbatim" /\ pc = "done") =>
        /\ xmlString = VerbatimText
        /\ \A n \in 1..Len(inp.texts) : Includes(xmlString, inp.texts[n])
        /\ ~Includes(xmlString, T_OUT)

\* C30 for the pass that inserts the string: verbatim right after it
C30_VerbatimWhenInserted ==
    (inp.family = "verbatim" /\ Ran(IF inp.shape = "loop" THEN "loops" ELSE "tables")) =>
        After(IF inp.shape = "loop" THEN "loops" ELSE "tables") = VerbatimText

\* C30 for inserted strings that hold no token-shaped span
C30_PlainStrings ==
    (inp.family = "verbatim" /\ \A n \in 1..Len(inp.texts) : inp.texts[n] \in PlainTexts) =>
        C30_DataNotReinterpreted

====
